---------------------------- MODULE Spec2Model ----------------------------
(***************************************************************************)
(* Preview-environment automation (preview-automation-go): the Deploy and  *)
(* Cleanup runs of PreviewManager against the cloud account they act on.   *)
(*                                                                         *)
(* The account (bucket, objects, bucket policy, origin access control,     *)
(* distribution, hosted-zone records) is the shared state; a run is a      *)
(* process whose program counter walks the provider calls of Deploy or     *)
(* Cleanup in source order, one call per step.  Every call can be refused  *)
(* by the provider (an injected failure, counted in faults) and is refused *)
(* when the provider's own precondition does not hold.                     *)
(***************************************************************************)
EXTENDS Integers, Sequences, FiniteSets, TLC

(* ------------------------------ bounds -------------------------------- *)
MaxRuns == 3
MaxFaults == 1

(* --------------------------- run identity ----------------------------- *)
PRNumber == 42
AppName == "site"
BaseDomain == "example.test"

\* A bucket name that would run the number and the application name together.
BucketNameUnseparated(pr, app) == "pr-" \o ToString(pr) \o app

\* main.go:90  bucketName := fmt.Sprintf("pr-%d-%s", cfg.PRNumber, cfg.AppName)
BucketNameOf(pr, app) == "pr-" \o ToString(pr) \o "-" \o app
\* main.go:101 fullDomain: fmt.Sprintf("%s.%s", bucketName, cfg.BaseDomain)
FullDomainOf(pr, app, base) == BucketNameOf(pr, app) \o "." \o base

bucketName == BucketNameOf(PRNumber, AppName)
fullDomain == FullDomainOf(PRNumber, AppName, BaseDomain)
\* deploy.go:143
oacName == "OAC-" \o bucketName

\* What filepath.Walk visits in the fullest source directory, in walk order,
\* by source-relative path: the root, a sub-directory, and two regular files.
Walk == <<[path |-> ".", isDir |-> TRUE],
          [path |-> "assets", isDir |-> TRUE],
          [path |-> "assets/app.js", isDir |-> FALSE],
          [path |-> "index.html", isDir |-> FALSE]>>

\* A walk that would take every entry for a file to upload.
EveryEntry(walk) == [i \in 1..Len(walk) |-> walk[i].path]

\* deploy.go:101-110: directories are skipped; the key is the path relative
\* to the source directory.
RegularFiles(walk) ==
    LET reg == SelectSeq(walk, LAMBDA e : ~e.isDir)
    IN  [i \in 1..Len(reg) |-> reg[i].path]

\* The files of the source directory a Deploy run may be given (walk order).
Files == RegularFiles(Walk)
FileSet == {Files[i] : i \in 1..Len(Files)}

Procs == {1, 2}

(* ------------------------------ provider ------------------------------ *)
\* One ListDistributions / ListOriginAccessControls call returns at most one
\* page; the code reads the Items of that single response.
ListPageSize == 100
OthersChoices == {0, ListPageSize}

NoDist == [id |-> 0, enabled |-> FALSE, status |-> "None", etag |-> 0, ahead |-> 0]
NoOac == [id |-> "", name |-> "", ahead |-> 0]

\* Provider-assigned attributes of a distribution.
DistArn(id) == "arn:aws:cloudfront::distribution/" \o ToString(id)
DistDomainName(id) == "d" \o ToString(id) \o ".cloudfront.net"

\* Route 53 returns fully-qualified names.
Fqdn(name) == name \o "."

\* Records of the hosted zone other than the environment's CNAME that the
\* zone may hold: another type at the environment's name, and a later name.
LaterName == "zz." \o BaseDomain
TxtAtHost == [name |-> Fqdn(fullDomain), type |-> "TXT", value |-> "v=txt", ttl |-> 300]
ARecLater == [name |-> Fqdn(LaterName), type |-> "A", value |-> "192.0.2.1", ttl |-> 300]
ForeignRecords == {TxtAtHost, ARecLater}
NoRec == [name |-> "", type |-> "", value |-> "", ttl |-> 0]

\* Listing order of a hosted zone: by name, then by type.
NameRank(n) == IF n = Fqdn(fullDomain) THEN 1 ELSE 2
TypeRank(t) == CASE t = "A" -> 1 [] t = "CNAME" -> 2 [] t = "TXT" -> 3 [] OTHER -> 4
RecBefore(a, b) ==
    \/ NameRank(a.name) < NameRank(b.name)
    \/ NameRank(a.name) = NameRank(b.name) /\ TypeRank(a.type) < TypeRank(b.type)
AtOrAfter(r, name, type) ==
    \/ NameRank(r.name) > NameRank(Fqdn(name))
    \/ NameRank(r.name) = NameRank(Fqdn(name)) /\ TypeRank(r.type) >= TypeRank(type)

VARIABLES
    bucket,      \* the bucket pr-{n}-{app} exists
    objects,     \* keys of the objects in the bucket
    policy,      \* the bucket policy's AWS:SourceArn ("" when no policy)
    oac,         \* the origin access control named OAC-{bucket} (NoOac: none)
    dist,        \* the distribution carrying the alias (NoDist: none)
    zone,        \* resource record sets of the hosted zone
    others,      \* other environments in the account (a distribution and an
                 \* origin access control each)
    nextId,      \* next distribution id the provider assigns
    pc,          \* per run: the provider call it is about to make
    cfg,         \* per run: action, source files, GitHub client present (set when read)
    loc,         \* per run: local variables of Deploy / Cleanup (ioErr: the
                 \* local file-system error that ended the sync, if any)
    calls,       \* per run: provider calls submitted, in order
    result,      \* per run: "" while running, "ok", or the returned error
    warned,      \* per run: warnings logged (non-fatal failures)
    had,         \* per run: what existed when the run started
    faulted,     \* per run: an injected provider failure hit this run
    prev,        \* per run: outcome of the process's previous run
    comments,    \* comments posted on the pull request
    faults,      \* injected provider failures so far
    nruns        \* runs started so far

cloud == <<bucket, objects, policy, oac, dist, zone, others, nextId>>
runv == <<pc, cfg, loc, calls, result, warned, had, faulted, prev>>
vars == <<cloud, runv, comments, faults, nruns>>

NoLoc == [oacID |-> "", distributionID |-> 0, arn |-> "", cfDomain |-> "",
          enabled |-> FALSE, etag |-> 0, todo |-> <<>>, recordSet |-> NoRec,
          listed |-> {}, ioErr |-> ""]
NoCfg == [action |-> "", source |-> {}, github |-> FALSE]
NoPrev == [action |-> "", ok |-> FALSE, source |-> {}]

\* The environment's CNAME record set, if the zone holds one.
Cnames == {r \in zone : r.name = Fqdn(fullDomain) /\ r.type = "CNAME"}

Existing ==
    (IF bucket THEN {"bucket"} ELSE {})
    \cup (IF oac # NoOac THEN {"oac"} ELSE {})
    \cup (IF dist # NoDist THEN {"dist"} ELSE {})
    \cup (IF Cnames # {} THEN {"cname"} ELSE {})
    \cup (IF \E r \in zone : r.name = Fqdn(fullDomain) THEN {"record"} ELSE {})

Init ==
    /\ bucket = FALSE
    /\ objects = {}
    /\ policy = ""
    /\ oac = NoOac
    /\ dist = NoDist
    /\ zone \in {{}} \cup {{r} : r \in ForeignRecords}
    /\ others \in OthersChoices
    /\ nextId = 1
    /\ pc = [p \in Procs |-> "idle"]
    /\ cfg = [p \in Procs |-> NoCfg]
    /\ loc = [p \in Procs |-> NoLoc]
    /\ calls = [p \in Procs |-> <<>>]
    /\ result = [p \in Procs |-> ""]
    /\ warned = [p \in Procs |-> {}]
    /\ had = [p \in Procs |-> {}]
    /\ faulted = [p \in Procs |-> FALSE]
    /\ prev = [p \in Procs |-> NoPrev]
    /\ comments = {}
    /\ faults = 0
    /\ nruns = 0

(* ------------------------------ helpers ------------------------------- *)
\* The outcome of a provider call whose precondition is pre: it succeeds only
\* if pre holds; it fails if pre does not hold, or by an injected failure.
Outcome(p, pre, ok) ==
    /\ ok => pre
    /\ (~ok /\ pre) => faults < MaxFaults
    /\ faults' = IF ~ok /\ pre THEN faults + 1 ELSE faults
    /\ faulted' = [faulted EXCEPT ![p] = @ \/ (~ok /\ pre)]

\* A request the provider refuses for the state of the account alone.
Refused(p) ==
    /\ faults' = faults
    /\ faulted' = [faulted EXCEPT ![p] = TRUE]

\* The log of a run: each provider call it submitted, ":err" appended when the
\* call failed.
Submit(p, name, ok) ==
    calls' = [calls EXCEPT ![p] = Append(@, IF ok THEN name ELSE name \o ":err")]
Goto(p, label) == pc' = [pc EXCEPT ![p] = label]
Return(p, res) ==
    /\ pc' = [pc EXCEPT ![p] = "done"]
    /\ result' = [result EXCEPT ![p] = res]
\* A step that would go on to label whatever the outcome.
ThenIgnore(p, ok, label, err) ==
    /\ pc' = [pc EXCEPT ![p] = label]
    /\ result' = result

\* A step that goes on to label when ok and returns err otherwise.
Then(p, ok, label, err) ==
    /\ pc' = [pc EXCEPT ![p] = IF ok THEN label ELSE "done"]
    /\ result' = [result EXCEPT ![p] = IF ok THEN @ ELSE err]

\* A walk that would stop after the first file.
OnlyFirstFile(S) ==
    IF S = {} THEN <<>> ELSE <<SelectSeq(Files, LAMBDA f : f \in S)[1]>>

\* Source files in walk order.
SeqOf(S) == SelectSeq(Files, LAMBDA f : f \in S)

(* main.go:104-116: an invocation that has its PreviewManager; the action
   flag selects Cleanup or Deploy. *)
main(p) ==
    /\ pc[p] \in {"idle", "done"}
    /\ nruns < MaxRuns
    /\ nruns' = nruns + 1
    /\ \E a \in {"deploy", "cleanup"} :
         \E src \in (IF a = "deploy" THEN SUBSET FileSet ELSE {{}}) :
            /\ cfg' = [cfg EXCEPT ![p] = [action |-> a, source |-> src, github |-> FALSE]]
            /\ loc' = [loc EXCEPT ![p] = [NoLoc EXCEPT !.todo = SeqOf(src)]]
            /\ pc' = [pc EXCEPT ![p] = IF a = "deploy" THEN "d_head" ELSE "c_find"]
    /\ prev' = [prev EXCEPT ![p] = [action |-> cfg[p].action, ok |-> result[p] = "ok",
                                    source |-> cfg[p].source]]
    /\ calls' = [calls EXCEPT ![p] = <<>>]
    /\ result' = [result EXCEPT ![p] = ""]
    /\ warned' = [warned EXCEPT ![p] = {}]
    /\ had' = [had EXCEPT ![p] = Existing]
    /\ faulted' = [faulted EXCEPT ![p] = FALSE]
    /\ UNCHANGED <<cloud, comments, faults>>


(* ------------------------- provider responses ------------------------- *)
\* Items of the single ListDistributions response: the distributions of the
\* first page.  Ours is on it when fewer than a page of others precede it.
ForeignDist == [id |-> -1, aliases |-> {"other." \o BaseDomain}]
ListDistributionsItems ==
    (IF others > 0 THEN {ForeignDist} ELSE {})
    \cup (IF dist # NoDist /\ dist.ahead < ListPageSize
          THEN {[id |-> dist.id, aliases |-> {fullDomain}]} ELSE {})

ForeignOac == [id |-> "E-OTHER", name |-> "OAC-other"]
ListOriginAccessControlsItems ==
    (IF others > 0 THEN {ForeignOac} ELSE {})
    \cup (IF oac # NoOac /\ oac.ahead < ListPageSize
          THEN {[id |-> oac.id, name |-> oac.name]} ELSE {})

\* ListResourceRecordSets with StartRecordName, StartRecordType, MaxItems 1:
\* the first record set at or after (name, type) in listing order.
ListResourceRecordSets(name, type) ==
    LET from == {r \in zone : AtOrAfter(r, name, type)}
    IN  IF from = {} THEN <<>>
        ELSE <<CHOOSE r \in from : \A o \in from \ {r} : RecBefore(r, o)>>

\* A Deploy that would write the bucket policy before managing the
\* distribution.
DeployAfterPolicyFirst(step) ==
    CASE step = "bucket" -> "sync"
      [] step = "sync" -> "oac"
      [] step = "oac" -> "policy"
      [] step = "policy" -> "distribution"
      [] step = "distribution" -> "invalidate"
      [] step = "invalidate" -> "dns"
      [] step = "dns" -> "comment"

\* A Deploy that would go from the bucket policy straight to the DNS record.
DeployAfterNoInvalidation(step) ==
    CASE step = "bucket" -> "sync"
      [] step = "sync" -> "oac"
      [] step = "oac" -> "distribution"
      [] step = "distribution" -> "policy"
      [] step = "policy" -> "dns"
      [] step = "invalidate" -> "dns"
      [] step = "dns" -> "comment"

\* A lookup that would take the first listed distribution, whatever its aliases.
findFirstDistribution(items) ==
    IF items = {} THEN 0 ELSE (CHOOSE d \in items : TRUE).id

(* ------------------------------ Deploy -------------------------------- *)
\* deploy.go:21-59 Deploy: the step that follows each step.
DeployAfter(step) ==
    CASE step = "bucket" -> "sync"
      [] step = "sync" -> "oac"
      [] step = "oac" -> "distribution"
      [] step = "distribution" -> "policy"
      [] step = "policy" -> "invalidate"
      [] step = "invalidate" -> "dns"
      [] step = "dns" -> "comment"

\* The first provider call of each step's function.
DeployEntry(step) ==
    CASE step = "bucket" -> "d_head"
      [] step = "sync" -> "d_walk"
      [] step = "oac" -> "d_listoac"
      [] step = "distribution" -> "d_finddist"
      [] step = "policy" -> "d_getdist"
      [] step = "invalidate" -> "d_invalidate"
      [] step = "dns" -> "d_zone"
      [] step = "comment" -> "d_comment"

\* deploy.go:24-52 Deploy: the error returned when a step fails.
DeployError(step) ==
    CASE step = "bucket" -> "failed to create S3 bucket"
      [] step = "sync" -> "failed to sync files to S3"
      [] step = "oac" -> "failed to manage OAC"
      [] step = "distribution" -> "failed to manage CloudFront distribution"
      [] step = "policy" -> "failed to set bucket policy"
      [] step = "invalidate" -> "failed to invalidate CloudFront cache"
      [] step = "dns" -> "failed to update Route53"
\* deploy.go:238-259: the id of an item whose aliases hold fullDomain, else 0 ("").
findCloudFrontDistribution(items) ==
    IF \E d \in items : fullDomain \in d.aliases
    THEN (CHOOSE d \in items : fullDomain \in d.aliases).id
    ELSE 0

\* deploy.go:150-157: the id of an item named OAC-{bucket}, else "".
findOAC(items) ==
    IF \E o \in items : o.name = oacName
    THEN (CHOOSE o \in items : o.name = oacName).id
    ELSE ""

\* deploy.go:68: HeadBucket without error means the bucket exists.
BucketAlreadyExists(headOk) == headOk

\* After the bucket step: the sync, which starts with the walk of the source
\* directory (deploy.go:28, 96).
AfterBucket(p) == DeployEntry(DeployAfter("bucket"))

\* After the root of the walk: upload the files, if any (deploy.go:96-131).
AfterWalk(p) ==
    IF loc[p].todo = <<>> THEN DeployEntry(DeployAfter("sync"))
    ELSE "d_sync"

\* A failure of the local file system during the sync: no provider call is
\* made; the walk stops and Deploy returns the sync error (deploy.go:132-134,
\* 28-30).
SyncIoError(p, what) ==
    /\ loc' = [loc EXCEPT ![p].ioErr = what]
    /\ Return(p, DeployError("sync"))
    /\ UNCHANGED <<cloud, cfg, calls, warned, had, faulted, prev, comments,
                   faults, nruns>>

\* deploy.go:64-71 createS3Bucket: HeadBucket.
DHeadBucket(p) ==
    /\ pc[p] = "d_head"
    /\ \E ok \in BOOLEAN :
         /\ Submit(p, "HeadBucket", ok)
         /\ Outcome(p, bucket, ok)
         /\ Goto(p, IF BucketAlreadyExists(ok) THEN AfterBucket(p) ELSE "d_create")
    /\ UNCHANGED <<cloud, cfg, loc, result, warned, had, prev, comments, nruns>>

\* deploy.go:73-89 createS3Bucket: CreateBucket (us-east-1: creating a bucket
\* one already owns succeeds).
DCreateBucket(p) ==
    /\ pc[p] = "d_create"
    /\ \E ok \in BOOLEAN :
         /\ Submit(p, "CreateBucket", ok)
         /\ Outcome(p, TRUE, ok)
         /\ bucket' = (bucket \/ ok)
         /\ Then(p, ok, AfterBucket(p), DeployError("bucket"))
    /\ UNCHANGED <<objects, policy, oac, dist, zone, others, nextId,
                   cfg, loc, warned, had, prev, comments, nruns>>

\* deploy.go:96-99 syncFilesToS3: filepath.Walk starts at the source
\* directory; when it is missing or unreadable the callback gets the error
\* and returns it.
DWalk(p) ==
    /\ pc[p] = "d_walk"
    /\ \/ SyncIoError(p, "walk")
       \/ /\ Goto(p, AfterWalk(p))
          /\ UNCHANGED <<cloud, cfg, loc, calls, result, warned, had, faulted, prev,
                         comments, faults, nruns>>

\* deploy.go:97-131 syncFilesToS3, the callback for the next regular file: an
\* error handed over by the walk (:97-99), of filepath.Rel (:105-108) or of
\* os.ReadFile (:114-117) ends the sync before any request; otherwise one
\* PutObject, in walk order.
DPutObject(p) ==
    /\ pc[p] = "d_sync"
    /\ \/ \E what \in {"walk", "read"} : SyncIoError(p, what)
       \/ /\ \E ok \in BOOLEAN :
               /\ Submit(p, "PutObject", ok)
               /\ Outcome(p, bucket, ok)
               /\ objects' = IF ok THEN objects \cup {Head(loc[p].todo)} ELSE objects
               /\ loc' = [loc EXCEPT ![p].todo = IF ok THEN Tail(@) ELSE @]
               /\ Then(p, ok, IF Len(loc[p].todo) = 1
                              THEN DeployEntry(DeployAfter("sync"))
                              ELSE "d_sync", DeployError("sync"))
          /\ UNCHANGED <<bucket, policy, oac, dist, zone, others, nextId,
                         cfg, warned, had, prev, comments, nruns>>

\* deploy.go:145-157 getOrCreateOAC: list and scan by name.
DListOACs(p) ==
    /\ pc[p] = "d_listoac"
    /\ \E ok \in BOOLEAN :
         /\ Submit(p, "ListOriginAccessControls", ok)
         /\ Outcome(p, TRUE, ok)
         /\ LET id == findOAC(ListOriginAccessControlsItems) IN
              /\ loc' = [loc EXCEPT ![p].oacID = IF ok THEN id ELSE @]
              /\ Then(p, ok, IF id # "" THEN DeployEntry(DeployAfter("oac"))
                             ELSE "d_createoac", DeployError("oac"))
    /\ UNCHANGED <<cloud, cfg, warned, had, prev, comments, nruns>>

\* deploy.go:159-175 getOrCreateOAC: create (names are unique in the account).
DCreateOAC(p) ==
    /\ pc[p] = "d_createoac"
    /\ \E ok \in BOOLEAN, pos \in {0, others} :
         /\ Submit(p, "CreateOriginAccessControl", ok)
         /\ Outcome(p, oac = NoOac, ok)
         /\ ~ok => pos = 0
         /\ oac' = IF ok THEN [id |-> "E-OAC", name |-> oacName, ahead |-> pos] ELSE oac
         /\ loc' = [loc EXCEPT ![p].oacID = IF ok THEN "E-OAC" ELSE @]
         /\ Then(p, ok, DeployEntry(DeployAfter("oac")), DeployError("oac"))
    /\ UNCHANGED <<bucket, objects, policy, dist, zone, others, nextId,
                   cfg, warned, had, prev, comments, nruns>>

\* deploy.go:225-233 getOrCreateCloudFrontDistribution: find by alias.
DListDistributions(p) ==
    /\ pc[p] = "d_finddist"
    /\ \E ok \in BOOLEAN :
         /\ Submit(p, "ListDistributions", ok)
         /\ Outcome(p, TRUE, ok)
         /\ LET id == findCloudFrontDistribution(ListDistributionsItems) IN
              /\ loc' = [loc EXCEPT ![p].distributionID = IF ok THEN id ELSE @]
              /\ Then(p, ok, IF id # 0 THEN DeployEntry(DeployAfter("distribution"))
                             ELSE "d_createdist", DeployError("distribution"))
    /\ UNCHANGED <<cloud, cfg, warned, had, prev, comments, nruns>>

\* deploy.go:261-351 createCloudFrontDistribution: enabled, one alias; the
\* provider refuses an alias that another distribution carries.
DCreateDistribution(p) ==
    /\ pc[p] = "d_createdist"
    /\ \E ok \in BOOLEAN, pos \in {0, others} :
         /\ Submit(p, "CreateDistribution", ok)
         /\ Outcome(p, dist = NoDist /\ oac # NoOac /\ oac.id = loc[p].oacID, ok)
         /\ ~ok => pos = 0
         /\ dist' = IF ok THEN [id |-> nextId, enabled |-> TRUE, status |-> "InProgress",
                                etag |-> 1, ahead |-> pos]
                    ELSE dist
         /\ nextId' = IF ok THEN nextId + 1 ELSE nextId
         /\ loc' = [loc EXCEPT ![p].distributionID = IF ok THEN nextId ELSE @]
         /\ Then(p, ok, DeployEntry(DeployAfter("distribution")),
                 DeployError("distribution"))
    /\ UNCHANGED <<bucket, objects, policy, oac, zone, others,
                   cfg, warned, had, prev, comments, nruns>>

\* deploy.go:181-188 setBucketPolicyForOAC: GetDistribution for the ARN.
DGetDistributionArn(p) ==
    /\ pc[p] = "d_getdist"
    /\ \E ok \in BOOLEAN :
         /\ Submit(p, "GetDistribution", ok)
         /\ Outcome(p, dist # NoDist /\ dist.id = loc[p].distributionID, ok)
         /\ loc' = [loc EXCEPT ![p].arn = IF ok THEN DistArn(dist.id) ELSE @]
         /\ Then(p, ok, "d_putpolicy", DeployError("policy"))
    /\ UNCHANGED <<cloud, cfg, warned, had, prev, comments, nruns>>

\* A policy write that would leave a policy the bucket already has.
PolicyKeptIfPresent(old, arn) == IF old = "" THEN arn ELSE old

\* deploy.go:190-214: the bucket's policy after PutBucketPolicy is the one
\* generated statement, whose AWS:SourceArn is the ARN just read.
PolicyAfterPut(old, arn) == arn

\* deploy.go:190-219 setBucketPolicyForOAC: PutBucketPolicy replaces the policy.
DPutBucketPolicy(p) ==
    /\ pc[p] = "d_putpolicy"
    /\ \E ok \in BOOLEAN :
         /\ Submit(p, "PutBucketPolicy", ok)
         /\ Outcome(p, bucket, ok)
         /\ policy' = IF ok THEN PolicyAfterPut(policy, loc[p].arn) ELSE policy
         /\ Then(p, ok, DeployEntry(DeployAfter("policy")), DeployError("policy"))
    /\ UNCHANGED <<bucket, objects, oac, dist, zone, others, nextId,
                   cfg, loc, warned, had, prev, comments, nruns>>

\* deploy.go:353-372 invalidateCloudFrontCache: one invalidation for /*.
DCreateInvalidation(p) ==
    /\ pc[p] = "d_invalidate"
    /\ \E ok \in BOOLEAN :
         /\ Submit(p, "CreateInvalidation", ok)
         /\ Outcome(p, dist # NoDist /\ dist.id = loc[p].distributionID, ok)
         /\ Then(p, ok, DeployEntry(DeployAfter("invalidate")), DeployError("invalidate"))
    /\ UNCHANGED <<cloud, cfg, loc, warned, had, prev, comments, nruns>>

\* deploy.go:377-380, 419-434 getHostedZoneID: an error or an empty list fails.
DListHostedZones(p) ==
    /\ pc[p] = "d_zone"
    /\ \E ok \in BOOLEAN :
         /\ Submit(p, "ListHostedZonesByName", ok)
         /\ Outcome(p, TRUE, ok)
         /\ Then(p, ok, "d_getdomain", DeployError("dns"))
    /\ UNCHANGED <<cloud, cfg, loc, warned, had, prev, comments, nruns>>

\* deploy.go:382-389 updateRoute53: GetDistribution for the edge domain.
DGetDistributionDomain(p) ==
    /\ pc[p] = "d_getdomain"
    /\ \E ok \in BOOLEAN :
         /\ Submit(p, "GetDistribution", ok)
         /\ Outcome(p, dist # NoDist /\ dist.id = loc[p].distributionID, ok)
         /\ loc' = [loc EXCEPT ![p].cfDomain = IF ok THEN DistDomainName(dist.id) ELSE @]
         /\ Then(p, ok, "d_upsert", DeployError("dns"))
    /\ UNCHANGED <<cloud, cfg, warned, had, prev, comments, nruns>>

\* deploy.go:391-416 updateRoute53: UPSERT of the CNAME, TTL 300.  The provider
\* refuses a CNAME at a name that holds a record of another type.
DUpsertRecord(p) ==
    /\ pc[p] = "d_upsert"
    /\ \E ok \in BOOLEAN :
         /\ Submit(p, "ChangeResourceRecordSets:UPSERT", ok)
         /\ LET conflict == \E r \in zone : r.name = Fqdn(fullDomain) /\ r.type # "CNAME"
            IN  /\ ok => ~conflict
                /\ IF conflict THEN Refused(p) ELSE Outcome(p, TRUE, ok)
         /\ zone' = IF ok
                    THEN (zone \ Cnames) \cup
                         {[name |-> Fqdn(fullDomain), type |-> "CNAME",
                           value |-> loc[p].cfDomain, ttl |-> 300]}
                    ELSE zone
         /\ Then(p, ok, DeployEntry(DeployAfter("dns")), DeployError("dns"))
    /\ UNCHANGED <<bucket, objects, policy, oac, dist, others, nextId,
                   cfg, loc, warned, had, prev, comments, nruns>>

\* A run whose result would depend on the notification.
AfterCommentFatal(p, ok) == Return(p, IF ok THEN "ok" ELSE "failed to post comment")

\* deploy.go:54-58, cleanup.go:41-45: the error of the comment step is printed
\* as a warning; the run returns nil.
AfterComment(p, ok) == Return(p, "ok")

DeployComment == [about |-> "deployed", url |-> "https://" \o fullDomain]

\* deploy.go:54-58, 436-463 postGitHubComment: skipped without a client; a
\* failure is a warning.
DPostComment(p) ==
    /\ pc[p] = "d_comment"
    /\ \E gh \in BOOLEAN : cfg' = [cfg EXCEPT ![p].github = gh]
    /\ IF cfg'[p].github
       THEN \E ok \in BOOLEAN :
                 /\ Submit(p, "CreateComment", ok)
                 /\ Outcome(p, TRUE, ok)
                 /\ comments' = IF ok THEN comments \cup {DeployComment} ELSE comments
                 /\ warned' = [warned EXCEPT ![p] = IF ok THEN @ ELSE @ \cup {"comment"}]
                 /\ AfterComment(p, ok)
       ELSE /\ UNCHANGED <<calls, comments, warned, faults, faulted>>
            /\ AfterComment(p, TRUE)
    /\ UNCHANGED <<cloud, loc, had, prev, nruns>>

\* A Cleanup that would remove the DNS record before the distribution.
CleanupAfterDnsFirst(step) ==
    CASE step = "find" -> "dns"
      [] step = "dns" -> "distribution"
      [] step = "distribution" -> "bucket"
      [] step = "bucket" -> "comment"

\* A teardown that would never disable, and one that would always disable.
NeverDisable(enabled) == FALSE
AlwaysDisable(enabled) == TRUE

\* A DNS step that would delete whatever record set the listing returned.
RecordMatchesAny(records) == Len(records) # 0

(* ------------------------------ Cleanup ------------------------------- *)
\* cleanup.go:17-46 Cleanup: the step that follows each step.
CleanupAfter(step) ==
    CASE step = "find" -> "distribution"
      [] step = "distribution" -> "dns"
      [] step = "dns" -> "bucket"
      [] step = "bucket" -> "comment"

\* The first provider call of each step's function.
CleanupEntry(step) ==
    CASE step = "find" -> "c_find"
      [] step = "distribution" -> "c_getcfg"
      [] step = "dns" -> "c_zone"
      [] step = "bucket" -> "c_head"
      [] step = "comment" -> "c_comment"

\* cleanup.go:22, 27, 38 Cleanup: the error returned when a step fails.
CleanupError(step) ==
    CASE step = "find" -> "failed to find distribution"
      [] step = "distribution" -> "failed to delete CloudFront distribution"
      [] step = "bucket" -> "failed to delete S3 bucket"
\* cleanup.go:20-31 Cleanup: find the distribution by alias.
CListDistributions(p) ==
    /\ pc[p] = "c_find"
    /\ \E ok \in BOOLEAN :
         /\ Submit(p, "ListDistributions", ok)
         /\ Outcome(p, TRUE, ok)
         /\ LET id == findCloudFrontDistribution(ListDistributionsItems) IN
              /\ loc' = [loc EXCEPT ![p].distributionID = IF ok THEN id ELSE @]
              /\ Then(p, ok, IF id # 0 THEN CleanupEntry(CleanupAfter("find"))
                             ELSE CleanupEntry(CleanupAfter("distribution")),
                      CleanupError("find"))
    /\ UNCHANGED <<cloud, cfg, warned, had, prev, comments, nruns>>

\* cleanup.go:58: the fetched config decides whether to disable first.
NeedsDisable(enabled) == enabled

\* cleanup.go:51-58 deleteCloudFrontDistribution: fetch config and ETag.
CGetDistributionConfig(p) ==
    /\ pc[p] = "c_getcfg"
    /\ \E ok \in BOOLEAN :
         /\ Submit(p, IF ~ok THEN "GetDistributionConfig"
                      ELSE IF dist.enabled THEN "GetDistributionConfig:enabled"
                      ELSE "GetDistributionConfig:disabled", ok)
         /\ Outcome(p, dist # NoDist /\ dist.id = loc[p].distributionID, ok)
         /\ loc' = [loc EXCEPT ![p].enabled = IF ok THEN dist.enabled ELSE @,
                               ![p].etag = IF ok THEN dist.etag ELSE @]
         /\ Then(p, ok, IF NeedsDisable(dist.enabled) THEN "c_disable" ELSE "c_refetch",
                 CleanupError("distribution"))
    /\ UNCHANGED <<cloud, cfg, warned, had, prev, comments, nruns>>

\* cleanup.go:65, 91: IfMatch is the ETag of distConfig, the latest fetch.
IfMatch(p) == loc[p].etag

\* A re-fetch whose ETag would be dropped.
KeepETag(old, new) == old

\* cleanup.go:81: the second fetch is assigned to distConfig, replacing the first.
ETagAfterRefetch(old, new) == new

\* cleanup.go:59-69: UpdateDistribution with Enabled = false, IfMatch the
\* fetched ETag.  The provider refuses a stale ETag and issues a new one.
CUpdateDistribution(p) ==
    /\ pc[p] = "c_disable"
    /\ \E ok \in BOOLEAN :
         /\ Submit(p, "UpdateDistribution", ok)
         /\ Outcome(p, /\ dist # NoDist
                       /\ dist.id = loc[p].distributionID
                       /\ dist.etag = IfMatch(p), ok)
         /\ dist' = IF ok THEN [dist EXCEPT !.enabled = FALSE, !.status = "InProgress",
                                            !.etag = @ + 1]
                    ELSE dist
         /\ Then(p, ok, "c_wait", CleanupError("distribution"))
    /\ UNCHANGED <<bucket, objects, policy, oac, zone, others, nextId,
                   cfg, loc, warned, had, prev, comments, nruns>>

\* cleanup.go:71-78: the deployed-waiter, 20 minutes.  It returns when the
\* provider reports Deployed; while the change is in progress it may time out.
CWaitDeployed(p) ==
    /\ pc[p] = "c_wait"
    /\ \E ok \in BOOLEAN :
         /\ Submit(p, "WaitDeployed", ok)
         /\ Outcome(p, dist # NoDist /\ dist.id = loc[p].distributionID, ok)
         /\ ok => dist.status = "Deployed"
         /\ Then(p, ok, "c_refetch", CleanupError("distribution"))
    /\ UNCHANGED <<cloud, cfg, loc, warned, had, prev, comments, nruns>>

\* cleanup.go:81-86: fetch the config again for a fresh ETag.
CRefetchDistributionConfig(p) ==
    /\ pc[p] = "c_refetch"
    /\ \E ok \in BOOLEAN :
         /\ Submit(p, IF ~ok THEN "GetDistributionConfig"
                      ELSE IF dist.enabled THEN "GetDistributionConfig:enabled"
                      ELSE "GetDistributionConfig:disabled", ok)
         /\ Outcome(p, dist # NoDist /\ dist.id = loc[p].distributionID, ok)
         /\ loc' = [loc EXCEPT ![p].enabled = IF ok THEN dist.enabled ELSE @,
                               ![p].etag = IF ok THEN ETagAfterRefetch(@, dist.etag)
                                           ELSE @]
         /\ Then(p, ok, "c_delete", CleanupError("distribution"))
    /\ UNCHANGED <<cloud, cfg, warned, had, prev, comments, nruns>>

\* cleanup.go:88-98: DeleteDistribution, IfMatch.  The provider accepts it for
\* a disabled distribution in steady state, with the current ETag.
CDeleteDistribution(p) ==
    /\ pc[p] = "c_delete"
    /\ \E ok \in BOOLEAN :
         /\ Submit(p, "DeleteDistribution", ok)
         /\ Outcome(p, /\ dist # NoDist
                       /\ dist.id = loc[p].distributionID
                       /\ dist.etag = IfMatch(p)
                       /\ ~dist.enabled
                       /\ dist.status = "Deployed", ok)
         /\ dist' = IF ok THEN NoDist ELSE dist
         /\ Then(p, ok, CleanupEntry(CleanupAfter("distribution")),
                 CleanupError("distribution"))
    /\ UNCHANGED <<bucket, objects, policy, oac, zone, others, nextId,
                   cfg, loc, warned, had, prev, comments, nruns>>

\* The provider finishes propagating a created or updated distribution.
ProviderDeployed ==
    /\ dist # NoDist
    /\ dist.status = "InProgress"
    /\ dist' = [dist EXCEPT !.status = "Deployed"]
    /\ UNCHANGED <<bucket, objects, policy, oac, zone, others, nextId,
                   runv, comments, faults, nruns>>

\* A failed step of deleteRoute53Record is a warning (cleanup.go:33-35).
Warn(p, ok, what) == warned' = [warned EXCEPT ![p] = IF ok THEN @ ELSE @ \cup {what}]

\* A Cleanup in which a failure of the DNS step would end the run.
DnsStepFatal(p, ok, label) ==
    /\ Warn(p, ok, "dns")
    /\ Then(p, ok, label, "failed to delete Route53 record")

\* cleanup.go:33-35 Cleanup: an error of deleteRoute53Record is printed as a
\* warning and the run goes on to the bucket.
DnsStep(p, ok, label) ==
    /\ Warn(p, ok, "dns")
    /\ Goto(p, IF ok THEN label ELSE CleanupEntry(CleanupAfter("dns")))
    /\ result' = result

\* cleanup.go:104-107 deleteRoute53Record: getHostedZoneID.
CListHostedZones(p) ==
    /\ pc[p] = "c_zone"
    /\ \E ok \in BOOLEAN :
         /\ Submit(p, "ListHostedZonesByName", ok)
         /\ Outcome(p, TRUE, ok)
         /\ DnsStep(p, ok, "c_listrec")
    /\ UNCHANGED <<cloud, cfg, loc, had, prev, comments, nruns>>

\* cleanup.go:119-128: a delete is due only for a first record set whose name
\* is fullDomain with the trailing dot.
RecordMatches(records) ==
    /\ Len(records) # 0
    /\ records[1].name = fullDomain \o "."

\* cleanup.go:109-128 deleteRoute53Record: list one record set from
\* (fullDomain, CNAME).
CListRecords(p) ==
    /\ pc[p] = "c_listrec"
    /\ \E ok \in BOOLEAN :
         /\ Submit(p, "ListResourceRecordSets", ok)
         /\ Outcome(p, TRUE, ok)
         /\ LET records == ListResourceRecordSets(fullDomain, "CNAME") IN
              /\ loc' = [loc EXCEPT ![p].recordSet =
                            IF ok /\ Len(records) # 0 THEN records[1] ELSE @]
              /\ DnsStep(p, ok, IF RecordMatches(records) THEN "c_delrec"
                                ELSE CleanupEntry(CleanupAfter("dns")))
    /\ UNCHANGED <<cloud, cfg, had, prev, comments, nruns>>

\* cleanup.go:130-146: DELETE of the record set as read.  The provider refuses
\* a delete of a record set that does not match one it holds.
CDeleteRecord(p) ==
    /\ pc[p] = "c_delrec"
    /\ \E ok \in BOOLEAN :
         /\ Submit(p, "ChangeResourceRecordSets:DELETE", ok)
         /\ Outcome(p, loc[p].recordSet \in zone, ok)
         /\ zone' = IF ok THEN zone \ {loc[p].recordSet} ELSE zone
         /\ DnsStep(p, ok, CleanupEntry(CleanupAfter("dns")))
    /\ UNCHANGED <<bucket, objects, policy, oac, dist, others, nextId,
                   cfg, loc, had, prev, comments, nruns>>

\* cleanup.go:152-158 deleteS3Bucket: a HeadBucket error means no bucket.
CHeadBucket(p) ==
    /\ pc[p] = "c_head"
    /\ \E ok \in BOOLEAN :
         /\ Submit(p, "HeadBucket", ok)
         /\ Outcome(p, bucket, ok)
         /\ Goto(p, IF ok THEN "c_listobj" ELSE CleanupEntry(CleanupAfter("bucket")))
    /\ UNCHANGED <<cloud, cfg, loc, result, warned, had, prev, comments, nruns>>

\* cleanup.go:161-169 deleteS3Bucket: list the objects.
CListObjects(p) ==
    /\ pc[p] = "c_listobj"
    /\ \E ok \in BOOLEAN :
         /\ Submit(p, "ListObjectsV2", ok)
         /\ Outcome(p, bucket, ok)
         /\ loc' = [loc EXCEPT ![p].listed = IF ok THEN objects ELSE @]
         /\ Then(p, ok, IF objects # {} THEN "c_delobj" ELSE "c_delbucket",
                 CleanupError("bucket"))
    /\ UNCHANGED <<cloud, cfg, warned, had, prev, comments, nruns>>

\* cleanup.go:171-188 deleteS3Bucket: delete the listed objects.
CDeleteObjects(p) ==
    /\ pc[p] = "c_delobj"
    /\ \E ok \in BOOLEAN :
         /\ Submit(p, "DeleteObjects", ok)
         /\ Outcome(p, bucket, ok)
         /\ objects' = IF ok THEN objects \ loc[p].listed ELSE objects
         /\ Then(p, ok, "c_delbucket", CleanupError("bucket"))
    /\ UNCHANGED <<bucket, policy, oac, dist, zone, others, nextId,
                   cfg, loc, warned, had, prev, comments, nruns>>

\* cleanup.go:191-199 deleteS3Bucket: DeleteBucket (refused unless empty).
CDeleteBucket(p) ==
    /\ pc[p] = "c_delbucket"
    /\ \E ok \in BOOLEAN :
         /\ Submit(p, "DeleteBucket", ok)
         /\ Outcome(p, bucket /\ objects = {}, ok)
         /\ bucket' = IF ok THEN FALSE ELSE bucket
         /\ policy' = IF ok THEN "" ELSE policy
         /\ Then(p, ok, CleanupEntry(CleanupAfter("bucket")), CleanupError("bucket"))
    /\ UNCHANGED <<objects, oac, dist, zone, others, nextId,
                   cfg, loc, warned, had, prev, comments, nruns>>

CleanupComment == [about |-> "cleanup", url |-> ""]

\* cleanup.go:41-45, 202-230 postCleanupGitHubComment.
CPostComment(p) ==
    /\ pc[p] = "c_comment"
    /\ \E gh \in BOOLEAN : cfg' = [cfg EXCEPT ![p].github = gh]
    /\ IF cfg'[p].github
       THEN \E ok \in BOOLEAN :
                 /\ Submit(p, "CreateComment", ok)
                 /\ Outcome(p, TRUE, ok)
                 /\ comments' = IF ok THEN comments \cup {CleanupComment} ELSE comments
                 /\ Warn(p, ok, "comment")
                 /\ AfterComment(p, ok)
       ELSE /\ UNCHANGED <<calls, comments, warned, faults, faulted>>
            /\ AfterComment(p, TRUE)
    /\ UNCHANGED <<cloud, loc, had, prev, nruns>>

(* --------------------------- specification ---------------------------- *)
\* deploy.go:21-59
Deploy(p) ==
    \/ DHeadBucket(p) \/ DCreateBucket(p) \/ DWalk(p) \/ DPutObject(p)
    \/ DListOACs(p) \/ DCreateOAC(p)
    \/ DListDistributions(p) \/ DCreateDistribution(p)
    \/ DGetDistributionArn(p) \/ DPutBucketPolicy(p)
    \/ DCreateInvalidation(p)
    \/ DListHostedZones(p) \/ DGetDistributionDomain(p) \/ DUpsertRecord(p)
    \/ DPostComment(p)

\* cleanup.go:17-46
Cleanup(p) ==
    \/ CListDistributions(p)
    \/ CGetDistributionConfig(p) \/ CUpdateDistribution(p) \/ CWaitDeployed(p)
    \/ CRefetchDistributionConfig(p) \/ CDeleteDistribution(p)
    \/ CListHostedZones(p) \/ CListRecords(p) \/ CDeleteRecord(p)
    \/ CHeadBucket(p) \/ CListObjects(p) \/ CDeleteObjects(p) \/ CDeleteBucket(p)
    \/ CPostComment(p)

\* One run at a time: the runs of one pull request's workflow, in sequence.
Next ==
    \/ main(1)
    \/ Deploy(1)
    \/ Cleanup(1)
    \/ ProviderDeployed

Spec == Init /\ [][Next]_vars

\* Two invocations for the same pull request running at once (two workflow
\* runs), one run each: their provider calls interleave in every order.  They
\* start on an account that holds nothing of the environment, or on one where
\* an earlier Deploy has succeeded.  No provider failure is injected and the
\* source directory is readable: a call fails only when the provider refuses
\* it for the state of the account.
Deployed(pos, st) ==
    /\ bucket = TRUE
    /\ objects = FileSet
    /\ policy = DistArn(1)
    /\ oac = [id |-> "E-OAC", name |-> oacName, ahead |-> pos]
    /\ dist = [id |-> 1, enabled |-> TRUE, status |-> st, etag |-> 1, ahead |-> pos]
    /\ zone = {[name |-> Fqdn(fullDomain), type |-> "CNAME",
                value |-> DistDomainName(1), ttl |-> 300]}
    /\ nextId = 2

InitConc ==
    /\ others \in OthersChoices
    /\ \/ /\ bucket = FALSE /\ objects = {} /\ policy = "" /\ oac = NoOac
          /\ dist = NoDist /\ zone = {} /\ nextId = 1
       \/ \E pos \in {0, others}, st \in {"InProgress", "Deployed"} : Deployed(pos, st)
    /\ pc = [p \in Procs |-> "idle"]
    /\ cfg = [p \in Procs |-> NoCfg]
    /\ loc = [p \in Procs |-> NoLoc]
    /\ calls = [p \in Procs |-> <<>>]
    /\ result = [p \in Procs |-> ""]
    /\ warned = [p \in Procs |-> {}]
    /\ had = [p \in Procs |-> {}]
    /\ faulted = [p \in Procs |-> FALSE]
    /\ prev = [p \in Procs |-> NoPrev]
    /\ comments = {}
    /\ faults = 0
    /\ nruns = 0

NextConc ==
    \/ \E p \in Procs : main(p) /\ pc[p] = "idle"
    \/ \E p \in Procs : Deploy(p) /\ faults' = faults /\ loc'[p].ioErr = ""
    \/ \E p \in Procs : Cleanup(p) /\ faults' = faults
    \/ ProviderDeployed

SpecConc == InitConc /\ [][NextConc]_vars

(* ------------------------- names of a run ----------------------------- *)
\* main.go:48-102: the flags pr, app, domain and repo-owner of an invocation,
\* the ways main ends before it has a PreviewManager, and the bucket name and
\* hostname it derives from the flags.  Two invocations, each with flags of
\* its own.
PRNumbers == {0, 1, 12, 42}
AppNames == {"", "site", "2-site", "2site"}
BaseDomains == {"", "example.test", "test"}
RepoOwners == {"", "octo"}
Flags == [PRNumber : PRNumbers, AppName : AppNames, BaseDomain : BaseDomains,
          RepoOwner : RepoOwners]

\* main.go:59-70: what log.Fatal prints for a missing flag ("" when none is
\* missing); the checks are made in this order.
FlagsFatal(f) ==
    IF f.PRNumber = 0 THEN "PR number is required (--pr)"
    ELSE IF f.AppName = "" THEN "App name is required (--app)"
    ELSE IF f.BaseDomain = "" THEN "Base domain is required (--domain)"
    ELSE IF f.RepoOwner = "" THEN "Repository owner is required (--repo-owner)"
    ELSE ""

InitNames ==
    /\ bucket = FALSE /\ objects = {} /\ policy = "" /\ oac = NoOac
    /\ dist = NoDist /\ zone = {} /\ others = 0 /\ nextId = 1
    /\ pc = [p \in Procs |-> "flags"]
    /\ cfg \in [Procs -> Flags]
    /\ loc = [p \in Procs |-> [bucketName |-> "", fullDomain |-> ""]]
    /\ calls = [p \in Procs |-> <<>>]
    /\ result = [p \in Procs |-> ""]
    /\ warned = [p \in Procs |-> {}]
    /\ had = [p \in Procs |-> {}]
    /\ faulted = [p \in Procs |-> FALSE]
    /\ prev = [p \in Procs |-> NoPrev]
    /\ comments = {}
    /\ faults = 0
    /\ nruns = 0

\* main.go:59-70: a missing flag ends the process before any name is built.
FlagsRejected(p) ==
    /\ pc[p] = "flags"
    /\ FlagsFatal(cfg[p]) # ""
    /\ pc' = [pc EXCEPT ![p] = "exit"]
    /\ result' = [result EXCEPT ![p] = FlagsFatal(cfg[p])]
    /\ UNCHANGED <<cloud, cfg, loc, calls, warned, had, faulted, prev,
                   comments, faults, nruns>>

\* main.go:74-77: with every flag present, config.LoadDefaultConfig can still
\* fail (a malformed shared configuration file, a profile that does not
\* exist); log.Fatalf then ends the process before any name is built.
LoadDefaultConfigFailed(p) ==
    /\ pc[p] = "flags"
    /\ FlagsFatal(cfg[p]) = ""
    /\ pc' = [pc EXCEPT ![p] = "exit"]
    /\ result' = [result EXCEPT ![p] = "Unable to load AWS config"]
    /\ UNCHANGED <<cloud, cfg, loc, calls, warned, had, faulted, prev,
                   comments, faults, nruns>>

\* main.go:74-102: the configuration is loaded, and main builds the
\* PreviewManager's bucketName and fullDomain.
NewPreviewManager(p) ==
    /\ pc[p] = "flags"
    /\ FlagsFatal(cfg[p]) = ""
    /\ loc' = [loc EXCEPT ![p] =
                 [bucketName |-> BucketNameOf(cfg[p].PRNumber, cfg[p].AppName),
                  fullDomain |-> FullDomainOf(cfg[p].PRNumber, cfg[p].AppName,
                                              cfg[p].BaseDomain)]]
    /\ pc' = [pc EXCEPT ![p] = "named"]
    /\ UNCHANGED <<cloud, cfg, calls, result, warned, had, faulted, prev,
                   comments, faults, nruns>>

NextNames ==
    \/ \E p \in Procs : FlagsRejected(p)
    \/ \E p \in Procs : LoadDefaultConfigFailed(p)
    \/ \E p \in Procs : NewPreviewManager(p)

SpecNames == InitNames /\ [][NextNames]_vars

(* --------------------------- content types ---------------------------- *)
\* File names are sequences of characters; a character outside ASCII is
\* written by its code point ("U+0130").
UpperChars == <<"A", "B", "C", "D", "E", "F", "G", "H", "I", "J", "K", "L", "M",
                "N", "O", "P", "Q", "R", "S", "T", "U", "V", "W", "X", "Y", "Z">>
LowerChars == <<"a", "b", "c", "d", "e", "f", "g", "h", "i", "j", "k", "l", "m",
                "n", "o", "p", "q", "r", "s", "t", "u", "v", "w", "x", "y", "z">>

\* A lowering that would leave every character as it is.
SameChar(c) == c

\* main.go:120 unicode.ToLower outside ASCII: every character whose lower
\* case is another character (the simple lower-case mappings of Unicode 15:
\* upper-case and title-case letters), in code point order, and its lower
\* case at the same index.  Two of them lower to an ASCII letter: U+0130
\* (I with dot above) gives i and U+212A (Kelvin sign) gives k.
UpperRunes == <<"U+00C0", "U+00C1", "U+00C2", "U+00C3", "U+00C4", "U+00C5",
                "U+00C6", "U+00C7", "U+00C8", "U+00C9", "U+00CA", "U+00CB",
                "U+00CC", "U+00CD", "U+00CE", "U+00CF", "U+00D0", "U+00D1",
                "U+00D2", "U+00D3", "U+00D4", "U+00D5", "U+00D6", "U+00D8",
                "U+00D9", "U+00DA", "U+00DB", "U+00DC", "U+00DD", "U+00DE",
                "U+0100", "U+0102", "U+0104", "U+0106", "U+0108", "U+010A",
                "U+010C", "U+010E", "U+0110", "U+0112", "U+0114", "U+0116",
                "U+0118", "U+011A", "U+011C", "U+011E", "U+0120", "U+0122",
                "U+0124", "U+0126", "U+0128", "U+012A", "U+012C", "U+012E",
                "U+0130", "U+0132", "U+0134", "U+0136", "U+0139", "U+013B",
                "U+013D", "U+013F", "U+0141", "U+0143", "U+0145", "U+0147",
                "U+014A", "U+014C", "U+014E", "U+0150", "U+0152", "U+0154",
                "U+0156", "U+0158", "U+015A", "U+015C", "U+015E", "U+0160",
                "U+0162", "U+0164", "U+0166", "U+0168", "U+016A", "U+016C",
                "U+016E", "U+0170", "U+0172", "U+0174", "U+0176", "U+0178",
                "U+0179", "U+017B", "U+017D", "U+0181", "U+0182", "U+0184",
                "U+0186", "U+0187", "U+0189", "U+018A", "U+018B", "U+018E",
                "U+018F", "U+0190", "U+0191", "U+0193", "U+0194", "U+0196",
                "U+0197", "U+0198", "U+019C", "U+019D", "U+019F", "U+01A0",
                "U+01A2", "U+01A4", "U+01A6", "U+01A7", "U+01A9", "U+01AC",
                "U+01AE", "U+01AF", "U+01B1", "U+01B2", "U+01B3", "U+01B5",
                "U+01B7", "U+01B8", "U+01BC", "U+01C4", "U+01C5", "U+01C7",
                "U+01C8", "U+01CA", "U+01CB", "U+01CD", "U+01CF", "U+01D1",
                "U+01D3", "U+01D5", "U+01D7", "U+01D9", "U+01DB", "U+01DE",
                "U+01E0", "U+01E2", "U+01E4", "U+01E6", "U+01E8", "U+01EA",
                "U+01EC", "U+01EE", "U+01F1", "U+01F2", "U+01F4", "U+01F6",
                "U+01F7", "U+01F8", "U+01FA", "U+01FC", "U+01FE", "U+0200",
                "U+0202", "U+0204", "U+0206", "U+0208", "U+020A", "U+020C",
                "U+020E", "U+0210", "U+0212", "U+0214", "U+0216", "U+0218",
                "U+021A", "U+021C", "U+021E", "U+0220", "U+0222", "U+0224",
                "U+0226", "U+0228", "U+022A", "U+022C", "U+022E", "U+0230",
                "U+0232", "U+023A", "U+023B", "U+023D", "U+023E", "U+0241",
                "U+0243", "U+0244", "U+0245", "U+0246", "U+0248", "U+024A",
                "U+024C", "U+024E", "U+0370", "U+0372", "U+0376", "U+037F",
                "U+0386", "U+0388", "U+0389", "U+038A", "U+038C", "U+038E",
                "U+038F", "U+0391", "U+0392", "U+0393", "U+0394", "U+0395",
                "U+0396", "U+0397", "U+0398", "U+0399", "U+039A", "U+039B",
                "U+039C", "U+039D", "U+039E", "U+039F", "U+03A0", "U+03A1",
                "U+03A3", "U+03A4", "U+03A5", "U+03A6", "U+03A7", "U+03A8",
                "U+03A9", "U+03AA", "U+03AB", "U+03CF", "U+03D8", "U+03DA",
                "U+03DC", "U+03DE", "U+03E0", "U+03E2", "U+03E4", "U+03E6",
                "U+03E8", "U+03EA", "U+03EC", "U+03EE", "U+03F4", "U+03F7",
                "U+03F9", "U+03FA", "U+03FD", "U+03FE", "U+03FF", "U+0400",
                "U+0401", "U+0402", "U+0403", "U+0404", "U+0405", "U+0406",
                "U+0407", "U+0408", "U+0409", "U+040A", "U+040B", "U+040C",
                "U+040D", "U+040E", "U+040F", "U+0410", "U+0411", "U+0412",
                "U+0413", "U+0414", "U+0415", "U+0416", "U+0417", "U+0418",
                "U+0419", "U+041A", "U+041B", "U+041C", "U+041D", "U+041E",
                "U+041F", "U+0420", "U+0421", "U+0422", "U+0423", "U+0424",
                "U+0425", "U+0426", "U+0427", "U+0428", "U+0429", "U+042A",
                "U+042B", "U+042C", "U+042D", "U+042E", "U+042F", "U+0460",
                "U+0462", "U+0464", "U+0466", "U+0468", "U+046A", "U+046C",
                "U+046E", "U+0470", "U+0472", "U+0474", "U+0476", "U+0478",
                "U+047A", "U+047C", "U+047E", "U+0480", "U+048A", "U+048C",
                "U+048E", "U+0490", "U+0492", "U+0494", "U+0496", "U+0498",
                "U+049A", "U+049C", "U+049E", "U+04A0", "U+04A2", "U+04A4",
                "U+04A6", "U+04A8", "U+04AA", "U+04AC", "U+04AE", "U+04B0",
                "U+04B2", "U+04B4", "U+04B6", "U+04B8", "U+04BA", "U+04BC",
                "U+04BE", "U+04C0", "U+04C1", "U+04C3", "U+04C5", "U+04C7",
                "U+04C9", "U+04CB", "U+04CD", "U+04D0", "U+04D2", "U+04D4",
                "U+04D6", "U+04D8", "U+04DA", "U+04DC", "U+04DE", "U+04E0",
                "U+04E2", "U+04E4", "U+04E6", "U+04E8", "U+04EA", "U+04EC",
                "U+04EE", "U+04F0", "U+04F2", "U+04F4", "U+04F6", "U+04F8",
                "U+04FA", "U+04FC", "U+04FE", "U+0500", "U+0502", "U+0504",
                "U+0506", "U+0508", "U+050A", "U+050C", "U+050E", "U+0510",
                "U+0512", "U+0514", "U+0516", "U+0518", "U+051A", "U+051C",
                "U+051E", "U+0520", "U+0522", "U+0524", "U+0526", "U+0528",
                "U+052A", "U+052C", "U+052E", "U+0531", "U+0532", "U+0533",
                "U+0534", "U+0535", "U+0536", "U+0537", "U+0538", "U+0539",
                "U+053A", "U+053B", "U+053C", "U+053D", "U+053E", "U+053F",
                "U+0540", "U+0541", "U+0542", "U+0543", "U+0544", "U+0545",
                "U+0546", "U+0547", "U+0548", "U+0549", "U+054A", "U+054B",
                "U+054C", "U+054D", "U+054E", "U+054F", "U+0550", "U+0551",
                "U+0552", "U+0553", "U+0554", "U+0555", "U+0556", "U+10A0",
                "U+10A1", "U+10A2", "U+10A3", "U+10A4", "U+10A5", "U+10A6",
                "U+10A7", "U+10A8", "U+10A9", "U+10AA", "U+10AB", "U+10AC",
                "U+10AD", "U+10AE", "U+10AF", "U+10B0", "U+10B1", "U+10B2",
                "U+10B3", "U+10B4", "U+10B5", "U+10B6", "U+10B7", "U+10B8",
                "U+10B9", "U+10BA", "U+10BB", "U+10BC", "U+10BD", "U+10BE",
                "U+10BF", "U+10C0", "U+10C1", "U+10C2", "U+10C3", "U+10C4",
                "U+10C5", "U+10C7", "U+10CD", "U+13A0", "U+13A1", "U+13A2",
                "U+13A3", "U+13A4", "U+13A5", "U+13A6", "U+13A7", "U+13A8",
                "U+13A9", "U+13AA", "U+13AB", "U+13AC", "U+13AD", "U+13AE",
                "U+13AF", "U+13B0", "U+13B1", "U+13B2", "U+13B3", "U+13B4",
                "U+13B5", "U+13B6", "U+13B7", "U+13B8", "U+13B9", "U+13BA",
                "U+13BB", "U+13BC", "U+13BD", "U+13BE", "U+13BF", "U+13C0",
                "U+13C1", "U+13C2", "U+13C3", "U+13C4", "U+13C5", "U+13C6",
                "U+13C7", "U+13C8", "U+13C9", "U+13CA", "U+13CB", "U+13CC",
                "U+13CD", "U+13CE", "U+13CF", "U+13D0", "U+13D1", "U+13D2",
                "U+13D3", "U+13D4", "U+13D5", "U+13D6", "U+13D7", "U+13D8",
                "U+13D9", "U+13DA", "U+13DB", "U+13DC", "U+13DD", "U+13DE",
                "U+13DF", "U+13E0", "U+13E1", "U+13E2", "U+13E3", "U+13E4",
                "U+13E5", "U+13E6", "U+13E7", "U+13E8", "U+13E9", "U+13EA",
                "U+13EB", "U+13EC", "U+13ED", "U+13EE", "U+13EF", "U+13F0",
                "U+13F1", "U+13F2", "U+13F3", "U+13F4", "U+13F5", "U+1C90",
                "U+1C91", "U+1C92", "U+1C93", "U+1C94", "U+1C95", "U+1C96",
                "U+1C97", "U+1C98", "U+1C99", "U+1C9A", "U+1C9B", "U+1C9C",
                "U+1C9D", "U+1C9E", "U+1C9F", "U+1CA0", "U+1CA1", "U+1CA2",
                "U+1CA3", "U+1CA4", "U+1CA5", "U+1CA6", "U+1CA7", "U+1CA8",
                "U+1CA9", "U+1CAA", "U+1CAB", "U+1CAC", "U+1CAD", "U+1CAE",
                "U+1CAF", "U+1CB0", "U+1CB1", "U+1CB2", "U+1CB3", "U+1CB4",
                "U+1CB5", "U+1CB6", "U+1CB7", "U+1CB8", "U+1CB9", "U+1CBA",
                "U+1CBD", "U+1CBE", "U+1CBF", "U+1E00", "U+1E02", "U+1E04",
                "U+1E06", "U+1E08", "U+1E0A", "U+1E0C", "U+1E0E", "U+1E10",
                "U+1E12", "U+1E14", "U+1E16", "U+1E18", "U+1E1A", "U+1E1C",
                "U+1E1E", "U+1E20", "U+1E22", "U+1E24", "U+1E26", "U+1E28",
                "U+1E2A", "U+1E2C", "U+1E2E", "U+1E30", "U+1E32", "U+1E34",
                "U+1E36", "U+1E38", "U+1E3A", "U+1E3C", "U+1E3E", "U+1E40",
                "U+1E42", "U+1E44", "U+1E46", "U+1E48", "U+1E4A", "U+1E4C",
                "U+1E4E", "U+1E50", "U+1E52", "U+1E54", "U+1E56", "U+1E58",
                "U+1E5A", "U+1E5C", "U+1E5E", "U+1E60", "U+1E62", "U+1E64",
                "U+1E66", "U+1E68", "U+1E6A", "U+1E6C", "U+1E6E", "U+1E70",
                "U+1E72", "U+1E74", "U+1E76", "U+1E78", "U+1E7A", "U+1E7C",
                "U+1E7E", "U+1E80", "U+1E82", "U+1E84", "U+1E86", "U+1E88",
                "U+1E8A", "U+1E8C", "U+1E8E", "U+1E90", "U+1E92", "U+1E94",
                "U+1E9E", "U+1EA0", "U+1EA2", "U+1EA4", "U+1EA6", "U+1EA8",
                "U+1EAA", "U+1EAC", "U+1EAE", "U+1EB0", "U+1EB2", "U+1EB4",
                "U+1EB6", "U+1EB8", "U+1EBA", "U+1EBC", "U+1EBE", "U+1EC0",
                "U+1EC2", "U+1EC4", "U+1EC6", "U+1EC8", "U+1ECA", "U+1ECC",
                "U+1ECE", "U+1ED0", "U+1ED2", "U+1ED4", "U+1ED6", "U+1ED8",
                "U+1EDA", "U+1EDC", "U+1EDE", "U+1EE0", "U+1EE2", "U+1EE4",
                "U+1EE6", "U+1EE8", "U+1EEA", "U+1EEC", "U+1EEE", "U+1EF0",
                "U+1EF2", "U+1EF4", "U+1EF6", "U+1EF8", "U+1EFA", "U+1EFC",
                "U+1EFE", "U+1F08", "U+1F09", "U+1F0A", "U+1F0B", "U+1F0C",
                "U+1F0D", "U+1F0E", "U+1F0F", "U+1F18", "U+1F19", "U+1F1A",
                "U+1F1B", "U+1F1C", "U+1F1D", "U+1F28", "U+1F29", "U+1F2A",
                "U+1F2B", "U+1F2C", "U+1F2D", "U+1F2E", "U+1F2F", "U+1F38",
                "U+1F39", "U+1F3A", "U+1F3B", "U+1F3C", "U+1F3D", "U+1F3E",
                "U+1F3F", "U+1F48", "U+1F49", "U+1F4A", "U+1F4B", "U+1F4C",
                "U+1F4D", "U+1F59", "U+1F5B", "U+1F5D", "U+1F5F", "U+1F68",
                "U+1F69", "U+1F6A", "U+1F6B", "U+1F6C", "U+1F6D", "U+1F6E",
                "U+1F6F", "U+1F88", "U+1F89", "U+1F8A", "U+1F8B", "U+1F8C",
                "U+1F8D", "U+1F8E", "U+1F8F", "U+1F98", "U+1F99", "U+1F9A",
                "U+1F9B", "U+1F9C", "U+1F9D", "U+1F9E", "U+1F9F", "U+1FA8",
                "U+1FA9", "U+1FAA", "U+1FAB", "U+1FAC", "U+1FAD", "U+1FAE",
                "U+1FAF", "U+1FB8", "U+1FB9", "U+1FBA", "U+1FBB", "U+1FBC",
                "U+1FC8", "U+1FC9", "U+1FCA", "U+1FCB", "U+1FCC", "U+1FD8",
                "U+1FD9", "U+1FDA", "U+1FDB", "U+1FE8", "U+1FE9", "U+1FEA",
                "U+1FEB", "U+1FEC", "U+1FF8", "U+1FF9", "U+1FFA", "U+1FFB",
                "U+1FFC", "U+2126", "U+212A", "U+212B", "U+2132", "U+2160",
                "U+2161", "U+2162", "U+2163", "U+2164", "U+2165", "U+2166",
                "U+2167", "U+2168", "U+2169", "U+216A", "U+216B", "U+216C",
                "U+216D", "U+216E", "U+216F", "U+2183", "U+24B6", "U+24B7",
                "U+24B8", "U+24B9", "U+24BA", "U+24BB", "U+24BC", "U+24BD",
                "U+24BE", "U+24BF", "U+24C0", "U+24C1", "U+24C2", "U+24C3",
                "U+24C4", "U+24C5", "U+24C6", "U+24C7", "U+24C8", "U+24C9",
                "U+24CA", "U+24CB", "U+24CC", "U+24CD", "U+24CE", "U+24CF",
                "U+2C00", "U+2C01", "U+2C02", "U+2C03", "U+2C04", "U+2C05",
                "U+2C06", "U+2C07", "U+2C08", "U+2C09", "U+2C0A", "U+2C0B",
                "U+2C0C", "U+2C0D", "U+2C0E", "U+2C0F", "U+2C10", "U+2C11",
                "U+2C12", "U+2C13", "U+2C14", "U+2C15", "U+2C16", "U+2C17",
                "U+2C18", "U+2C19", "U+2C1A", "U+2C1B", "U+2C1C", "U+2C1D",
                "U+2C1E", "U+2C1F", "U+2C20", "U+2C21", "U+2C22", "U+2C23",
                "U+2C24", "U+2C25", "U+2C26", "U+2C27", "U+2C28", "U+2C29",
                "U+2C2A", "U+2C2B", "U+2C2C", "U+2C2D", "U+2C2E", "U+2C2F",
                "U+2C60", "U+2C62", "U+2C63", "U+2C64", "U+2C67", "U+2C69",
                "U+2C6B", "U+2C6D", "U+2C6E", "U+2C6F", "U+2C70", "U+2C72",
                "U+2C75", "U+2C7E", "U+2C7F", "U+2C80", "U+2C82", "U+2C84",
                "U+2C86", "U+2C88", "U+2C8A", "U+2C8C", "U+2C8E", "U+2C90",
                "U+2C92", "U+2C94", "U+2C96", "U+2C98", "U+2C9A", "U+2C9C",
                "U+2C9E", "U+2CA0", "U+2CA2", "U+2CA4", "U+2CA6", "U+2CA8",
                "U+2CAA", "U+2CAC", "U+2CAE", "U+2CB0", "U+2CB2", "U+2CB4",
                "U+2CB6", "U+2CB8", "U+2CBA", "U+2CBC", "U+2CBE", "U+2CC0",
                "U+2CC2", "U+2CC4", "U+2CC6", "U+2CC8", "U+2CCA", "U+2CCC",
                "U+2CCE", "U+2CD0", "U+2CD2", "U+2CD4", "U+2CD6", "U+2CD8",
                "U+2CDA", "U+2CDC", "U+2CDE", "U+2CE0", "U+2CE2", "U+2CEB",
                "U+2CED", "U+2CF2", "U+A640", "U+A642", "U+A644", "U+A646",
                "U+A648", "U+A64A", "U+A64C", "U+A64E", "U+A650", "U+A652",
                "U+A654", "U+A656", "U+A658", "U+A65A", "U+A65C", "U+A65E",
                "U+A660", "U+A662", "U+A664", "U+A666", "U+A668", "U+A66A",
                "U+A66C", "U+A680", "U+A682", "U+A684", "U+A686", "U+A688",
                "U+A68A", "U+A68C", "U+A68E", "U+A690", "U+A692", "U+A694",
                "U+A696", "U+A698", "U+A69A", "U+A722", "U+A724", "U+A726",
                "U+A728", "U+A72A", "U+A72C", "U+A72E", "U+A732", "U+A734",
                "U+A736", "U+A738", "U+A73A", "U+A73C", "U+A73E", "U+A740",
                "U+A742", "U+A744", "U+A746", "U+A748", "U+A74A", "U+A74C",
                "U+A74E", "U+A750", "U+A752", "U+A754", "U+A756", "U+A758",
                "U+A75A", "U+A75C", "U+A75E", "U+A760", "U+A762", "U+A764",
                "U+A766", "U+A768", "U+A76A", "U+A76C", "U+A76E", "U+A779",
                "U+A77B", "U+A77D", "U+A77E", "U+A780", "U+A782", "U+A784",
                "U+A786", "U+A78B", "U+A78D", "U+A790", "U+A792", "U+A796",
                "U+A798", "U+A79A", "U+A79C", "U+A79E", "U+A7A0", "U+A7A2",
                "U+A7A4", "U+A7A6", "U+A7A8", "U+A7AA", "U+A7AB", "U+A7AC",
                "U+A7AD", "U+A7AE", "U+A7B0", "U+A7B1", "U+A7B2", "U+A7B3",
                "U+A7B4", "U+A7B6", "U+A7B8", "U+A7BA", "U+A7BC", "U+A7BE",
                "U+A7C0", "U+A7C2", "U+A7C4", "U+A7C5", "U+A7C6", "U+A7C7",
                "U+A7C9", "U+A7D0", "U+A7D6", "U+A7D8", "U+A7F5", "U+FF21",
                "U+FF22", "U+FF23", "U+FF24", "U+FF25", "U+FF26", "U+FF27",
                "U+FF28", "U+FF29", "U+FF2A", "U+FF2B", "U+FF2C", "U+FF2D",
                "U+FF2E", "U+FF2F", "U+FF30", "U+FF31", "U+FF32", "U+FF33",
                "U+FF34", "U+FF35", "U+FF36", "U+FF37", "U+FF38", "U+FF39",
                "U+FF3A", "U+10400", "U+10401", "U+10402", "U+10403",
                "U+10404", "U+10405", "U+10406", "U+10407", "U+10408",
                "U+10409", "U+1040A", "U+1040B", "U+1040C", "U+1040D",
                "U+1040E", "U+1040F", "U+10410", "U+10411", "U+10412",
                "U+10413", "U+10414", "U+10415", "U+10416", "U+10417",
                "U+10418", "U+10419", "U+1041A", "U+1041B", "U+1041C",
                "U+1041D", "U+1041E", "U+1041F", "U+10420", "U+10421",
                "U+10422", "U+10423", "U+10424", "U+10425", "U+10426",
                "U+10427", "U+104B0", "U+104B1", "U+104B2", "U+104B3",
                "U+104B4", "U+104B5", "U+104B6", "U+104B7", "U+104B8",
                "U+104B9", "U+104BA", "U+104BB", "U+104BC", "U+104BD",
                "U+104BE", "U+104BF", "U+104C0", "U+104C1", "U+104C2",
                "U+104C3", "U+104C4", "U+104C5", "U+104C6", "U+104C7",
                "U+104C8", "U+104C9", "U+104CA", "U+104CB", "U+104CC",
                "U+104CD", "U+104CE", "U+104CF", "U+104D0", "U+104D1",
                "U+104D2", "U+104D3", "U+10570", "U+10571", "U+10572",
                "U+10573", "U+10574", "U+10575", "U+10576", "U+10577",
                "U+10578", "U+10579", "U+1057A", "U+1057C", "U+1057D",
                "U+1057E", "U+1057F", "U+10580", "U+10581", "U+10582",
                "U+10583", "U+10584", "U+10585", "U+10586", "U+10587",
                "U+10588", "U+10589", "U+1058A", "U+1058C", "U+1058D",
                "U+1058E", "U+1058F", "U+10590", "U+10591", "U+10592",
                "U+10594", "U+10595", "U+10C80", "U+10C81", "U+10C82",
                "U+10C83", "U+10C84", "U+10C85", "U+10C86", "U+10C87",
                "U+10C88", "U+10C89", "U+10C8A", "U+10C8B", "U+10C8C",
                "U+10C8D", "U+10C8E", "U+10C8F", "U+10C90", "U+10C91",
                "U+10C92", "U+10C93", "U+10C94", "U+10C95", "U+10C96",
                "U+10C97", "U+10C98", "U+10C99", "U+10C9A", "U+10C9B",
                "U+10C9C", "U+10C9D", "U+10C9E", "U+10C9F", "U+10CA0",
                "U+10CA1", "U+10CA2", "U+10CA3", "U+10CA4", "U+10CA5",
                "U+10CA6", "U+10CA7", "U+10CA8", "U+10CA9", "U+10CAA",
                "U+10CAB", "U+10CAC", "U+10CAD", "U+10CAE", "U+10CAF",
                "U+10CB0", "U+10CB1", "U+10CB2", "U+118A0", "U+118A1",
                "U+118A2", "U+118A3", "U+118A4", "U+118A5", "U+118A6",
                "U+118A7", "U+118A8", "U+118A9", "U+118AA", "U+118AB",
                "U+118AC", "U+118AD", "U+118AE", "U+118AF", "U+118B0",
                "U+118B1", "U+118B2", "U+118B3", "U+118B4", "U+118B5",
                "U+118B6", "U+118B7", "U+118B8", "U+118B9", "U+118BA",
                "U+118BB", "U+118BC", "U+118BD", "U+118BE", "U+118BF",
                "U+16E40", "U+16E41", "U+16E42", "U+16E43", "U+16E44",
                "U+16E45", "U+16E46", "U+16E47", "U+16E48", "U+16E49",
                "U+16E4A", "U+16E4B", "U+16E4C", "U+16E4D", "U+16E4E",
                "U+16E4F", "U+16E50", "U+16E51", "U+16E52", "U+16E53",
                "U+16E54", "U+16E55", "U+16E56", "U+16E57", "U+16E58",
                "U+16E59", "U+16E5A", "U+16E5B", "U+16E5C", "U+16E5D",
                "U+16E5E", "U+16E5F", "U+1E900", "U+1E901", "U+1E902",
                "U+1E903", "U+1E904", "U+1E905", "U+1E906", "U+1E907",
                "U+1E908", "U+1E909", "U+1E90A", "U+1E90B", "U+1E90C",
                "U+1E90D", "U+1E90E", "U+1E90F", "U+1E910", "U+1E911",
                "U+1E912", "U+1E913", "U+1E914", "U+1E915", "U+1E916",
                "U+1E917", "U+1E918", "U+1E919", "U+1E91A", "U+1E91B",
                "U+1E91C", "U+1E91D", "U+1E91E", "U+1E91F", "U+1E920",
                "U+1E921">>
LowerRunes == <<"U+00E0", "U+00E1", "U+00E2", "U+00E3", "U+00E4", "U+00E5",
                "U+00E6", "U+00E7", "U+00E8", "U+00E9", "U+00EA", "U+00EB",
                "U+00EC", "U+00ED", "U+00EE", "U+00EF", "U+00F0", "U+00F1",
                "U+00F2", "U+00F3", "U+00F4", "U+00F5", "U+00F6", "U+00F8",
                "U+00F9", "U+00FA", "U+00FB", "U+00FC", "U+00FD", "U+00FE",
                "U+0101", "U+0103", "U+0105", "U+0107", "U+0109", "U+010B",
                "U+010D", "U+010F", "U+0111", "U+0113", "U+0115", "U+0117",
                "U+0119", "U+011B", "U+011D", "U+011F", "U+0121", "U+0123",
                "U+0125", "U+0127", "U+0129", "U+012B", "U+012D", "U+012F",
                "i", "U+0133", "U+0135", "U+0137", "U+013A", "U+013C",
                "U+013E", "U+0140", "U+0142", "U+0144", "U+0146", "U+0148",
                "U+014B", "U+014D", "U+014F", "U+0151", "U+0153", "U+0155",
                "U+0157", "U+0159", "U+015B", "U+015D", "U+015F", "U+0161",
                "U+0163", "U+0165", "U+0167", "U+0169", "U+016B", "U+016D",
                "U+016F", "U+0171", "U+0173", "U+0175", "U+0177", "U+00FF",
                "U+017A", "U+017C", "U+017E", "U+0253", "U+0183", "U+0185",
                "U+0254", "U+0188", "U+0256", "U+0257", "U+018C", "U+01DD",
                "U+0259", "U+025B", "U+0192", "U+0260", "U+0263", "U+0269",
                "U+0268", "U+0199", "U+026F", "U+0272", "U+0275", "U+01A1",
                "U+01A3", "U+01A5", "U+0280", "U+01A8", "U+0283", "U+01AD",
                "U+0288", "U+01B0", "U+028A", "U+028B", "U+01B4", "U+01B6",
                "U+0292", "U+01B9", "U+01BD", "U+01C6", "U+01C6", "U+01C9",
                "U+01C9", "U+01CC", "U+01CC", "U+01CE", "U+01D0", "U+01D2",
                "U+01D4", "U+01D6", "U+01D8", "U+01DA", "U+01DC", "U+01DF",
                "U+01E1", "U+01E3", "U+01E5", "U+01E7", "U+01E9", "U+01EB",
                "U+01ED", "U+01EF", "U+01F3", "U+01F3", "U+01F5", "U+0195",
                "U+01BF", "U+01F9", "U+01FB", "U+01FD", "U+01FF", "U+0201",
                "U+0203", "U+0205", "U+0207", "U+0209", "U+020B", "U+020D",
                "U+020F", "U+0211", "U+0213", "U+0215", "U+0217", "U+0219",
                "U+021B", "U+021D", "U+021F", "U+019E", "U+0223", "U+0225",
                "U+0227", "U+0229", "U+022B", "U+022D", "U+022F", "U+0231",
                "U+0233", "U+2C65", "U+023C", "U+019A", "U+2C66", "U+0242",
                "U+0180", "U+0289", "U+028C", "U+0247", "U+0249", "U+024B",
                "U+024D", "U+024F", "U+0371", "U+0373", "U+0377", "U+03F3",
                "U+03AC", "U+03AD", "U+03AE", "U+03AF", "U+03CC", "U+03CD",
                "U+03CE", "U+03B1", "U+03B2", "U+03B3", "U+03B4", "U+03B5",
                "U+03B6", "U+03B7", "U+03B8", "U+03B9", "U+03BA", "U+03BB",
                "U+03BC", "U+03BD", "U+03BE", "U+03BF", "U+03C0", "U+03C1",
                "U+03C3", "U+03C4", "U+03C5", "U+03C6", "U+03C7", "U+03C8",
                "U+03C9", "U+03CA", "U+03CB", "U+03D7", "U+03D9", "U+03DB",
                "U+03DD", "U+03DF", "U+03E1", "U+03E3", "U+03E5", "U+03E7",
                "U+03E9", "U+03EB", "U+03ED", "U+03EF", "U+03B8", "U+03F8",
                "U+03F2", "U+03FB", "U+037B", "U+037C", "U+037D", "U+0450",
                "U+0451", "U+0452", "U+0453", "U+0454", "U+0455", "U+0456",
                "U+0457", "U+0458", "U+0459", "U+045A", "U+045B", "U+045C",
                "U+045D", "U+045E", "U+045F", "U+0430", "U+0431", "U+0432",
                "U+0433", "U+0434", "U+0435", "U+0436", "U+0437", "U+0438",
                "U+0439", "U+043A", "U+043B", "U+043C", "U+043D", "U+043E",
                "U+043F", "U+0440", "U+0441", "U+0442", "U+0443", "U+0444",
                "U+0445", "U+0446", "U+0447", "U+0448", "U+0449", "U+044A",
                "U+044B", "U+044C", "U+044D", "U+044E", "U+044F", "U+0461",
                "U+0463", "U+0465", "U+0467", "U+0469", "U+046B", "U+046D",
                "U+046F", "U+0471", "U+0473", "U+0475", "U+0477", "U+0479",
                "U+047B", "U+047D", "U+047F", "U+0481", "U+048B", "U+048D",
                "U+048F", "U+0491", "U+0493", "U+0495", "U+0497", "U+0499",
                "U+049B", "U+049D", "U+049F", "U+04A1", "U+04A3", "U+04A5",
                "U+04A7", "U+04A9", "U+04AB", "U+04AD", "U+04AF", "U+04B1",
                "U+04B3", "U+04B5", "U+04B7", "U+04B9", "U+04BB", "U+04BD",
                "U+04BF", "U+04CF", "U+04C2", "U+04C4", "U+04C6", "U+04C8",
                "U+04CA", "U+04CC", "U+04CE", "U+04D1", "U+04D3", "U+04D5",
                "U+04D7", "U+04D9", "U+04DB", "U+04DD", "U+04DF", "U+04E1",
                "U+04E3", "U+04E5", "U+04E7", "U+04E9", "U+04EB", "U+04ED",
                "U+04EF", "U+04F1", "U+04F3", "U+04F5", "U+04F7", "U+04F9",
                "U+04FB", "U+04FD", "U+04FF", "U+0501", "U+0503", "U+0505",
                "U+0507", "U+0509", "U+050B", "U+050D", "U+050F", "U+0511",
                "U+0513", "U+0515", "U+0517", "U+0519", "U+051B", "U+051D",
                "U+051F", "U+0521", "U+0523", "U+0525", "U+0527", "U+0529",
                "U+052B", "U+052D", "U+052F", "U+0561", "U+0562", "U+0563",
                "U+0564", "U+0565", "U+0566", "U+0567", "U+0568", "U+0569",
                "U+056A", "U+056B", "U+056C", "U+056D", "U+056E", "U+056F",
                "U+0570", "U+0571", "U+0572", "U+0573", "U+0574", "U+0575",
                "U+0576", "U+0577", "U+0578", "U+0579", "U+057A", "U+057B",
                "U+057C", "U+057D", "U+057E", "U+057F", "U+0580", "U+0581",
                "U+0582", "U+0583", "U+0584", "U+0585", "U+0586", "U+2D00",
                "U+2D01", "U+2D02", "U+2D03", "U+2D04", "U+2D05", "U+2D06",
                "U+2D07", "U+2D08", "U+2D09", "U+2D0A", "U+2D0B", "U+2D0C",
                "U+2D0D", "U+2D0E", "U+2D0F", "U+2D10", "U+2D11", "U+2D12",
                "U+2D13", "U+2D14", "U+2D15", "U+2D16", "U+2D17", "U+2D18",
                "U+2D19", "U+2D1A", "U+2D1B", "U+2D1C", "U+2D1D", "U+2D1E",
                "U+2D1F", "U+2D20", "U+2D21", "U+2D22", "U+2D23", "U+2D24",
                "U+2D25", "U+2D27", "U+2D2D", "U+AB70", "U+AB71", "U+AB72",
                "U+AB73", "U+AB74", "U+AB75", "U+AB76", "U+AB77", "U+AB78",
                "U+AB79", "U+AB7A", "U+AB7B", "U+AB7C", "U+AB7D", "U+AB7E",
                "U+AB7F", "U+AB80", "U+AB81", "U+AB82", "U+AB83", "U+AB84",
                "U+AB85", "U+AB86", "U+AB87", "U+AB88", "U+AB89", "U+AB8A",
                "U+AB8B", "U+AB8C", "U+AB8D", "U+AB8E", "U+AB8F", "U+AB90",
                "U+AB91", "U+AB92", "U+AB93", "U+AB94", "U+AB95", "U+AB96",
                "U+AB97", "U+AB98", "U+AB99", "U+AB9A", "U+AB9B", "U+AB9C",
                "U+AB9D", "U+AB9E", "U+AB9F", "U+ABA0", "U+ABA1", "U+ABA2",
                "U+ABA3", "U+ABA4", "U+ABA5", "U+ABA6", "U+ABA7", "U+ABA8",
                "U+ABA9", "U+ABAA", "U+ABAB", "U+ABAC", "U+ABAD", "U+ABAE",
                "U+ABAF", "U+ABB0", "U+ABB1", "U+ABB2", "U+ABB3", "U+ABB4",
                "U+ABB5", "U+ABB6", "U+ABB7", "U+ABB8", "U+ABB9", "U+ABBA",
                "U+ABBB", "U+ABBC", "U+ABBD", "U+ABBE", "U+ABBF", "U+13F8",
                "U+13F9", "U+13FA", "U+13FB", "U+13FC", "U+13FD", "U+10D0",
                "U+10D1", "U+10D2", "U+10D3", "U+10D4", "U+10D5", "U+10D6",
                "U+10D7", "U+10D8", "U+10D9", "U+10DA", "U+10DB", "U+10DC",
                "U+10DD", "U+10DE", "U+10DF", "U+10E0", "U+10E1", "U+10E2",
                "U+10E3", "U+10E4", "U+10E5", "U+10E6", "U+10E7", "U+10E8",
                "U+10E9", "U+10EA", "U+10EB", "U+10EC", "U+10ED", "U+10EE",
                "U+10EF", "U+10F0", "U+10F1", "U+10F2", "U+10F3", "U+10F4",
                "U+10F5", "U+10F6", "U+10F7", "U+10F8", "U+10F9", "U+10FA",
                "U+10FD", "U+10FE", "U+10FF", "U+1E01", "U+1E03", "U+1E05",
                "U+1E07", "U+1E09", "U+1E0B", "U+1E0D", "U+1E0F", "U+1E11",
                "U+1E13", "U+1E15", "U+1E17", "U+1E19", "U+1E1B", "U+1E1D",
                "U+1E1F", "U+1E21", "U+1E23", "U+1E25", "U+1E27", "U+1E29",
                "U+1E2B", "U+1E2D", "U+1E2F", "U+1E31", "U+1E33", "U+1E35",
                "U+1E37", "U+1E39", "U+1E3B", "U+1E3D", "U+1E3F", "U+1E41",
                "U+1E43", "U+1E45", "U+1E47", "U+1E49", "U+1E4B", "U+1E4D",
                "U+1E4F", "U+1E51", "U+1E53", "U+1E55", "U+1E57", "U+1E59",
                "U+1E5B", "U+1E5D", "U+1E5F", "U+1E61", "U+1E63", "U+1E65",
                "U+1E67", "U+1E69", "U+1E6B", "U+1E6D", "U+1E6F", "U+1E71",
                "U+1E73", "U+1E75", "U+1E77", "U+1E79", "U+1E7B", "U+1E7D",
                "U+1E7F", "U+1E81", "U+1E83", "U+1E85", "U+1E87", "U+1E89",
                "U+1E8B", "U+1E8D", "U+1E8F", "U+1E91", "U+1E93", "U+1E95",
                "U+00DF", "U+1EA1", "U+1EA3", "U+1EA5", "U+1EA7", "U+1EA9",
                "U+1EAB", "U+1EAD", "U+1EAF", "U+1EB1", "U+1EB3", "U+1EB5",
                "U+1EB7", "U+1EB9", "U+1EBB", "U+1EBD", "U+1EBF", "U+1EC1",
                "U+1EC3", "U+1EC5", "U+1EC7", "U+1EC9", "U+1ECB", "U+1ECD",
                "U+1ECF", "U+1ED1", "U+1ED3", "U+1ED5", "U+1ED7", "U+1ED9",
                "U+1EDB", "U+1EDD", "U+1EDF", "U+1EE1", "U+1EE3", "U+1EE5",
                "U+1EE7", "U+1EE9", "U+1EEB", "U+1EED", "U+1EEF", "U+1EF1",
                "U+1EF3", "U+1EF5", "U+1EF7", "U+1EF9", "U+1EFB", "U+1EFD",
                "U+1EFF", "U+1F00", "U+1F01", "U+1F02", "U+1F03", "U+1F04",
                "U+1F05", "U+1F06", "U+1F07", "U+1F10", "U+1F11", "U+1F12",
                "U+1F13", "U+1F14", "U+1F15", "U+1F20", "U+1F21", "U+1F22",
                "U+1F23", "U+1F24", "U+1F25", "U+1F26", "U+1F27", "U+1F30",
                "U+1F31", "U+1F32", "U+1F33", "U+1F34", "U+1F35", "U+1F36",
                "U+1F37", "U+1F40", "U+1F41", "U+1F42", "U+1F43", "U+1F44",
                "U+1F45", "U+1F51", "U+1F53", "U+1F55", "U+1F57", "U+1F60",
                "U+1F61", "U+1F62", "U+1F63", "U+1F64", "U+1F65", "U+1F66",
                "U+1F67", "U+1F80", "U+1F81", "U+1F82", "U+1F83", "U+1F84",
                "U+1F85", "U+1F86", "U+1F87", "U+1F90", "U+1F91", "U+1F92",
                "U+1F93", "U+1F94", "U+1F95", "U+1F96", "U+1F97", "U+1FA0",
                "U+1FA1", "U+1FA2", "U+1FA3", "U+1FA4", "U+1FA5", "U+1FA6",
                "U+1FA7", "U+1FB0", "U+1FB1", "U+1F70", "U+1F71", "U+1FB3",
                "U+1F72", "U+1F73", "U+1F74", "U+1F75", "U+1FC3", "U+1FD0",
                "U+1FD1", "U+1F76", "U+1F77", "U+1FE0", "U+1FE1", "U+1F7A",
                "U+1F7B", "U+1FE5", "U+1F78", "U+1F79", "U+1F7C", "U+1F7D",
                "U+1FF3", "U+03C9", "k", "U+00E5", "U+214E", "U+2170",
                "U+2171", "U+2172", "U+2173", "U+2174", "U+2175", "U+2176",
                "U+2177", "U+2178", "U+2179", "U+217A", "U+217B", "U+217C",
                "U+217D", "U+217E", "U+217F", "U+2184", "U+24D0", "U+24D1",
                "U+24D2", "U+24D3", "U+24D4", "U+24D5", "U+24D6", "U+24D7",
                "U+24D8", "U+24D9", "U+24DA", "U+24DB", "U+24DC", "U+24DD",
                "U+24DE", "U+24DF", "U+24E0", "U+24E1", "U+24E2", "U+24E3",
                "U+24E4", "U+24E5", "U+24E6", "U+24E7", "U+24E8", "U+24E9",
                "U+2C30", "U+2C31", "U+2C32", "U+2C33", "U+2C34", "U+2C35",
                "U+2C36", "U+2C37", "U+2C38", "U+2C39", "U+2C3A", "U+2C3B",
                "U+2C3C", "U+2C3D", "U+2C3E", "U+2C3F", "U+2C40", "U+2C41",
                "U+2C42", "U+2C43", "U+2C44", "U+2C45", "U+2C46", "U+2C47",
                "U+2C48", "U+2C49", "U+2C4A", "U+2C4B", "U+2C4C", "U+2C4D",
                "U+2C4E", "U+2C4F", "U+2C50", "U+2C51", "U+2C52", "U+2C53",
                "U+2C54", "U+2C55", "U+2C56", "U+2C57", "U+2C58", "U+2C59",
                "U+2C5A", "U+2C5B", "U+2C5C", "U+2C5D", "U+2C5E", "U+2C5F",
                "U+2C61", "U+026B", "U+1D7D", "U+027D", "U+2C68", "U+2C6A",
                "U+2C6C", "U+0251", "U+0271", "U+0250", "U+0252", "U+2C73",
                "U+2C76", "U+023F", "U+0240", "U+2C81", "U+2C83", "U+2C85",
                "U+2C87", "U+2C89", "U+2C8B", "U+2C8D", "U+2C8F", "U+2C91",
                "U+2C93", "U+2C95", "U+2C97", "U+2C99", "U+2C9B", "U+2C9D",
                "U+2C9F", "U+2CA1", "U+2CA3", "U+2CA5", "U+2CA7", "U+2CA9",
                "U+2CAB", "U+2CAD", "U+2CAF", "U+2CB1", "U+2CB3", "U+2CB5",
                "U+2CB7", "U+2CB9", "U+2CBB", "U+2CBD", "U+2CBF", "U+2CC1",
                "U+2CC3", "U+2CC5", "U+2CC7", "U+2CC9", "U+2CCB", "U+2CCD",
                "U+2CCF", "U+2CD1", "U+2CD3", "U+2CD5", "U+2CD7", "U+2CD9",
                "U+2CDB", "U+2CDD", "U+2CDF", "U+2CE1", "U+2CE3", "U+2CEC",
                "U+2CEE", "U+2CF3", "U+A641", "U+A643", "U+A645", "U+A647",
                "U+A649", "U+A64B", "U+A64D", "U+A64F", "U+A651", "U+A653",
                "U+A655", "U+A657", "U+A659", "U+A65B", "U+A65D", "U+A65F",
                "U+A661", "U+A663", "U+A665", "U+A667", "U+A669", "U+A66B",
                "U+A66D", "U+A681", "U+A683", "U+A685", "U+A687", "U+A689",
                "U+A68B", "U+A68D", "U+A68F", "U+A691", "U+A693", "U+A695",
                "U+A697", "U+A699", "U+A69B", "U+A723", "U+A725", "U+A727",
                "U+A729", "U+A72B", "U+A72D", "U+A72F", "U+A733", "U+A735",
                "U+A737", "U+A739", "U+A73B", "U+A73D", "U+A73F", "U+A741",
                "U+A743", "U+A745", "U+A747", "U+A749", "U+A74B", "U+A74D",
                "U+A74F", "U+A751", "U+A753", "U+A755", "U+A757", "U+A759",
                "U+A75B", "U+A75D", "U+A75F", "U+A761", "U+A763", "U+A765",
                "U+A767", "U+A769", "U+A76B", "U+A76D", "U+A76F", "U+A77A",
                "U+A77C", "U+1D79", "U+A77F", "U+A781", "U+A783", "U+A785",
                "U+A787", "U+A78C", "U+0265", "U+A791", "U+A793", "U+A797",
                "U+A799", "U+A79B", "U+A79D", "U+A79F", "U+A7A1", "U+A7A3",
                "U+A7A5", "U+A7A7", "U+A7A9", "U+0266", "U+025C", "U+0261",
                "U+026C", "U+026A", "U+029E", "U+0287", "U+029D", "U+AB53",
                "U+A7B5", "U+A7B7", "U+A7B9", "U+A7BB", "U+A7BD", "U+A7BF",
                "U+A7C1", "U+A7C3", "U+A794", "U+0282", "U+1D8E", "U+A7C8",
                "U+A7CA", "U+A7D1", "U+A7D7", "U+A7D9", "U+A7F6", "U+FF41",
                "U+FF42", "U+FF43", "U+FF44", "U+FF45", "U+FF46", "U+FF47",
                "U+FF48", "U+FF49", "U+FF4A", "U+FF4B", "U+FF4C", "U+FF4D",
                "U+FF4E", "U+FF4F", "U+FF50", "U+FF51", "U+FF52", "U+FF53",
                "U+FF54", "U+FF55", "U+FF56", "U+FF57", "U+FF58", "U+FF59",
                "U+FF5A", "U+10428", "U+10429", "U+1042A", "U+1042B",
                "U+1042C", "U+1042D", "U+1042E", "U+1042F", "U+10430",
                "U+10431", "U+10432", "U+10433", "U+10434", "U+10435",
                "U+10436", "U+10437", "U+10438", "U+10439", "U+1043A",
                "U+1043B", "U+1043C", "U+1043D", "U+1043E", "U+1043F",
                "U+10440", "U+10441", "U+10442", "U+10443", "U+10444",
                "U+10445", "U+10446", "U+10447", "U+10448", "U+10449",
                "U+1044A", "U+1044B", "U+1044C", "U+1044D", "U+1044E",
                "U+1044F", "U+104D8", "U+104D9", "U+104DA", "U+104DB",
                "U+104DC", "U+104DD", "U+104DE", "U+104DF", "U+104E0",
                "U+104E1", "U+104E2", "U+104E3", "U+104E4", "U+104E5",
                "U+104E6", "U+104E7", "U+104E8", "U+104E9", "U+104EA",
                "U+104EB", "U+104EC", "U+104ED", "U+104EE", "U+104EF",
                "U+104F0", "U+104F1", "U+104F2", "U+104F3", "U+104F4",
                "U+104F5", "U+104F6", "U+104F7", "U+104F8", "U+104F9",
                "U+104FA", "U+104FB", "U+10597", "U+10598", "U+10599",
                "U+1059A", "U+1059B", "U+1059C", "U+1059D", "U+1059E",
                "U+1059F", "U+105A0", "U+105A1", "U+105A3", "U+105A4",
                "U+105A5", "U+105A6", "U+105A7", "U+105A8", "U+105A9",
                "U+105AA", "U+105AB", "U+105AC", "U+105AD", "U+105AE",
                "U+105AF", "U+105B0", "U+105B1", "U+105B3", "U+105B4",
                "U+105B5", "U+105B6", "U+105B7", "U+105B8", "U+105B9",
                "U+105BB", "U+105BC", "U+10CC0", "U+10CC1", "U+10CC2",
                "U+10CC3", "U+10CC4", "U+10CC5", "U+10CC6", "U+10CC7",
                "U+10CC8", "U+10CC9", "U+10CCA", "U+10CCB", "U+10CCC",
                "U+10CCD", "U+10CCE", "U+10CCF", "U+10CD0", "U+10CD1",
                "U+10CD2", "U+10CD3", "U+10CD4", "U+10CD5", "U+10CD6",
                "U+10CD7", "U+10CD8", "U+10CD9", "U+10CDA", "U+10CDB",
                "U+10CDC", "U+10CDD", "U+10CDE", "U+10CDF", "U+10CE0",
                "U+10CE1", "U+10CE2", "U+10CE3", "U+10CE4", "U+10CE5",
                "U+10CE6", "U+10CE7", "U+10CE8", "U+10CE9", "U+10CEA",
                "U+10CEB", "U+10CEC", "U+10CED", "U+10CEE", "U+10CEF",
                "U+10CF0", "U+10CF1", "U+10CF2", "U+118C0", "U+118C1",
                "U+118C2", "U+118C3", "U+118C4", "U+118C5", "U+118C6",
                "U+118C7", "U+118C8", "U+118C9", "U+118CA", "U+118CB",
                "U+118CC", "U+118CD", "U+118CE", "U+118CF", "U+118D0",
                "U+118D1", "U+118D2", "U+118D3", "U+118D4", "U+118D5",
                "U+118D6", "U+118D7", "U+118D8", "U+118D9", "U+118DA",
                "U+118DB", "U+118DC", "U+118DD", "U+118DE", "U+118DF",
                "U+16E60", "U+16E61", "U+16E62", "U+16E63", "U+16E64",
                "U+16E65", "U+16E66", "U+16E67", "U+16E68", "U+16E69",
                "U+16E6A", "U+16E6B", "U+16E6C", "U+16E6D", "U+16E6E",
                "U+16E6F", "U+16E70", "U+16E71", "U+16E72", "U+16E73",
                "U+16E74", "U+16E75", "U+16E76", "U+16E77", "U+16E78",
                "U+16E79", "U+16E7A", "U+16E7B", "U+16E7C", "U+16E7D",
                "U+16E7E", "U+16E7F", "U+1E922", "U+1E923", "U+1E924",
                "U+1E925", "U+1E926", "U+1E927", "U+1E928", "U+1E929",
                "U+1E92A", "U+1E92B", "U+1E92C", "U+1E92D", "U+1E92E",
                "U+1E92F", "U+1E930", "U+1E931", "U+1E932", "U+1E933",
                "U+1E934", "U+1E935", "U+1E936", "U+1E937", "U+1E938",
                "U+1E939", "U+1E93A", "U+1E93B", "U+1E93C", "U+1E93D",
                "U+1E93E", "U+1E93F", "U+1E940", "U+1E941", "U+1E942",
                "U+1E943">>

\* A byte that is not part of a well-formed UTF-8 sequence, written by its
\* value ("0xFF"); strings.ToLower (strings.Map) puts U+FFFD in its place.
HexDigits == <<"0", "1", "2", "3", "4", "5", "6", "7", "8", "9",
               "A", "B", "C", "D", "E", "F">>
InvalidBytes == {"0x" \o HexDigits[h] \o HexDigits[l] : h \in 9..16, l \in 1..16}
RuneError == "U+FFFD"

\* main.go:120 strings.ToLower, one character.
ToLowerChar(c) ==
    IF \E i \in 1..Len(UpperChars) : UpperChars[i] = c
    THEN LowerChars[CHOOSE i \in 1..Len(UpperChars) : UpperChars[i] = c]
    ELSE IF \E i \in 1..Len(UpperRunes) : UpperRunes[i] = c
    THEN LowerRunes[CHOOSE i \in 1..Len(UpperRunes) : UpperRunes[i] = c]
    ELSE IF c \in InvalidBytes THEN RuneError
    ELSE c
ToLower(str) == [i \in 1..Len(str) |-> ToLowerChar(str[i])]

\* main.go:120 filepath.Ext: the suffix from the last dot of the last path
\* element; empty when that element has no dot.
Ext(path) ==
    LET dots == {i \in 1..Len(path) :
                    /\ path[i] = "."
                    /\ \A j \in i..Len(path) : path[j] # "/"}
    IN  IF dots = {} THEN <<>>
        ELSE SubSeq(path, CHOOSE i \in dots : \A j \in dots : j <= i, Len(path))

\* main.go:121-135 contentTypes.
contentTypes ==
    {<<<<".", "h", "t", "m", "l">>, "text/html">>,
     <<<<".", "c", "s", "s">>, "text/css">>,
     <<<<".", "j", "s">>, "application/javascript">>,
     <<<<".", "j", "s", "o", "n">>, "application/json">>,
     <<<<".", "p", "n", "g">>, "image/png">>,
     <<<<".", "j", "p", "g">>, "image/jpeg">>,
     <<<<".", "j", "p", "e", "g">>, "image/jpeg">>,
     <<<<".", "g", "i", "f">>, "image/gif">>,
     <<<<".", "s", "v", "g">>, "image/svg+xml">>,
     <<<<".", "i", "c", "o">>, "image/x-icon">>,
     <<<<".", "x", "m", "l">>, "application/xml">>,
     <<<<".", "p", "d", "f">>, "application/pdf">>,
     <<<<".", "t", "x", "t">>, "text/plain">>}

\* main.go:119-141 getContentType.
getContentType(filename) ==
    LET ext == ToLower(Ext(filename))
    IN  IF \E e \in contentTypes : e[1] = ext
        THEN (CHOOSE e \in contentTypes : e[1] = ext)[2]
        ELSE "application/octet-stream"

\* The file names getContentType is applied to: a directory part, a stem and
\* an extension written in lower case, in upper case, capitalised, or in
\* upper case with the letters outside ASCII ("runes": U+0130 for i, U+212A
\* for k, and the first upper case of a lower-case letter outside ASCII).
ToUpperChar(c) ==
    IF \E i \in 1..Len(LowerChars) : LowerChars[i] = c
    THEN UpperChars[CHOOSE i \in 1..Len(LowerChars) : LowerChars[i] = c]
    ELSE c
ToUpperRune(c) ==
    LET at == {i \in 1..Len(LowerRunes) : LowerRunes[i] = c}
    IN  IF at = {} THEN ToUpperChar(c)
        ELSE UpperRunes[CHOOSE i \in at : \A j \in at : i <= j]
Written(ext, how) ==
    [i \in 1..Len(ext) |->
        IF how = "runes" /\ ext[i] = "i" THEN "U+0130"
        ELSE IF how = "runes" /\ ext[i] = "k" THEN "U+212A"
        ELSE IF how = "runes" THEN ToUpperRune(ext[i])
        ELSE IF how = "upper" \/ (how = "capital" /\ i = 2)
        THEN ToUpperChar(ext[i])
        ELSE ext[i]]
KnownExts == {e[1] : e \in contentTypes}
\* Extensions that are not in the table: none, a bare dot, an unknown one, a
\* prefix of a known one, a known one without its dot, and known ones with a
\* letter replaced by a letter outside ASCII (Latin-1, Latin Extended-A,
\* Greek, Cyrillic, Deseret) or by a byte that is not UTF-8.
UnknownExts == {<<>>, <<".">>, <<".", "g", "z">>, <<".", "h", "t", "m">>,
                <<"h", "t", "m", "l">>,
                <<".", "j", "p", "U+00E9", "g">>,
                <<".", "U+0101", "U+00FF">>,
                <<".", "U+03B1", "U+03C9">>,
                <<".", "p", "U+0434", "f">>,
                <<".", "U+10428">>,
                <<".", "p", "0xFF", "g">>}
Dirs == {<<>>, <<"d", ".", "j", "s", "/">>}
Stems == {<<>>, <<"a">>, <<"a", ".", "b">>}
FileNames ==
    {[filename |-> d \o st \o Written(e, how), ext |-> e] :
        d \in Dirs, st \in Stems, e \in KnownExts \cup UnknownExts,
        how \in {"lower", "upper", "capital", "runes"}}

InitContentType ==
    /\ bucket = FALSE /\ objects = {} /\ policy = "" /\ oac = NoOac
    /\ dist = NoDist /\ zone = {} /\ others = 0 /\ nextId = 1
    /\ pc = [p \in Procs |-> "file"]
    /\ \E f \in FileNames : cfg = [p \in Procs |-> f]
    /\ loc = [p \in Procs |-> [contentType |-> ""]]
    /\ calls = [p \in Procs |-> <<>>]
    /\ result = [p \in Procs |-> ""]
    /\ warned = [p \in Procs |-> {}]
    /\ had = [p \in Procs |-> {}]
    /\ faulted = [p \in Procs |-> FALSE]
    /\ prev = [p \in Procs |-> NoPrev]
    /\ comments = {}
    /\ faults = 0
    /\ nruns = 0

\* deploy.go:112: contentType := getContentType(path).
ContentTypeOfFile(p) ==
    /\ pc[p] = "file"
    /\ loc' = [loc EXCEPT ![p].contentType = getContentType(cfg[p].filename)]
    /\ pc' = [pc EXCEPT ![p] = "typed"]
    /\ UNCHANGED <<cloud, cfg, calls, result, warned, had, faulted, prev,
                   comments, faults, nruns>>

NextContentType == \E p \in Procs : ContentTypeOfFile(p)

SpecContentType == InitContentType /\ [][NextContentType]_vars

(* ------------------------------- claims ------------------------------- *)
Ok(p, name) == \E i \in 1..Len(calls[p]) : calls[p][i] = name
Tried(p, name) == Ok(p, name) \/ Ok(p, name \o ":err")
IsDeploy(p) == cfg[p].action = "deploy"
IsCleanup(p) == cfg[p].action = "cleanup"
Done(p) == pc[p] = "done"

\* C1: a Deploy run that starts with the bucket, the origin access control,
\* the distribution and the CNAME all present, and meets no provider failure
\* (and no failure reading its source directory),
\* submits no create-bucket, create-access-control or create-distribution
\* request, and succeeds.
C1_RerunCreatesNothing ==
    \A p \in Procs :
        (/\ IsDeploy(p) /\ {"bucket", "oac", "dist", "cname"} \subseteq had[p]
         /\ ~faulted[p] /\ loc[p].ioErr = "")
        => /\ ~Tried(p, "CreateBucket")
           /\ ~Tried(p, "CreateOriginAccessControl")
           /\ ~Tried(p, "CreateDistribution")
           /\ Done(p) => result[p] = "ok"

\* C2: in a Cleanup run a delete-distribution request is submitted only when
\* the most recently fetched config reports disabled: right after a fetch that
\* reported disabled which itself follows either another fetch that reported
\* disabled, or the disable update and a completed wait.
C2_DeleteOnlyAfterDisabledFetch ==
    \A p \in Procs :
        IsCleanup(p) =>
            /\ pc[p] = "c_delete" => ~loc[p].enabled
            /\ \A i \in 1..Len(calls[p]) :
                 calls[p][i] \in {"DeleteDistribution", "DeleteDistribution:err"} =>
                    /\ i >= 3
                    /\ calls[p][i-1] = "GetDistributionConfig:disabled"
                    /\ \/ calls[p][i-2] = "GetDistributionConfig:disabled"
                       \/ /\ i >= 4
                          /\ calls[p][i-2] = "WaitDeployed"
                          /\ calls[p][i-3] = "UpdateDistribution"

C2_Witness ==
    \E p \in Procs :
        IsCleanup(p) /\ Ok(p, "UpdateDistribution") /\ Ok(p, "DeleteDistribution")

\* C3: in a Cleanup run a DNS delete is submitted only right after a list call
\* whose first record has the name fullDomain + "."; when the list returned
\* nothing or another name, no DNS change is submitted and the DNS step logs
\* no failure.
C3_DnsDeleteOnlyAfterMatch ==
    \A p \in Procs :
        IsCleanup(p) =>
            /\ pc[p] = "c_delrec" => loc[p].recordSet.name = fullDomain \o "."
            /\ \A i \in 1..Len(calls[p]) :
                 calls[p][i] \in {"ChangeResourceRecordSets:DELETE",
                                  "ChangeResourceRecordSets:DELETE:err"} =>
                    /\ i >= 2
                    /\ calls[p][i-1] = "ListResourceRecordSets"
                    /\ loc[p].recordSet.name = fullDomain \o "."
            /\ (Ok(p, "ListResourceRecordSets") /\ loc[p].recordSet.name # fullDomain \o ".")
               => /\ pc[p] # "c_delrec"
                  /\ ~Tried(p, "ChangeResourceRecordSets:DELETE")
                  /\ "dns" \notin warned[p]

C3_Witness ==
    \E p \in Procs :
        /\ IsCleanup(p)
        /\ Ok(p, "ChangeResourceRecordSets:DELETE")
        /\ loc[p].recordSet.type = "CNAME"

\* C4: after a successful Deploy followed by a successful Cleanup, the bucket,
\* the distribution, the origin access control OAC-{bucket} and the CNAME are
\* all absent.
C4_DeployThenCleanupRemovesAll ==
    \A p \in Procs :
        (IsCleanup(p) /\ Done(p) /\ result[p] = "ok"
         /\ prev[p].action = "deploy" /\ prev[p].ok)
        => /\ ~bucket
           /\ dist = NoDist
           /\ oac = NoOac
           /\ Cnames = {}

MutatingCalls ==
    {"UpdateDistribution", "DeleteDistribution", "ChangeResourceRecordSets:DELETE",
     "ChangeResourceRecordSets:UPSERT", "DeleteObjects", "DeleteBucket",
     "CreateBucket", "PutObject", "PutBucketPolicy", "CreateDistribution",
     "CreateOriginAccessControl", "CreateInvalidation"}

\* C5: a Cleanup run that starts with no distribution, no record at the
\* environment's name and no bucket submits no mutating request, and returns
\* success whenever its distribution listing was answered.
C5_CleanupOfNothing ==
    \A p \in Procs :
        (IsCleanup(p) /\ had[p] \cap {"bucket", "dist", "record"} = {})
        => /\ \A c \in MutatingCalls : ~Tried(p, c)
           /\ (Done(p) /\ ~Ok(p, "ListDistributions:err")) => result[p] = "ok"

C5_Witness ==
    \E p \in Procs :
        /\ IsCleanup(p) /\ Done(p) /\ result[p] = "ok"
        /\ had[p] \cap {"bucket", "dist", "record"} = {}
        /\ Ok(p, "ListResourceRecordSets")
        /\ Ok(p, "HeadBucket:err")

IsErr(c) == \E n \in MutatingCalls \cup
                 {"HeadBucket", "ListOriginAccessControls", "ListDistributions",
                  "GetDistribution", "GetDistributionConfig", "WaitDeployed",
                  "ListHostedZonesByName", "ListResourceRecordSets", "ListObjectsV2",
                  "CreateComment"} : c = n \o ":err"

\* The Deploy step (1..8, in the order of section 4.1) a logged call belongs to.
StepOfCall(c, before) ==
    CASE c \in {"HeadBucket", "HeadBucket:err", "CreateBucket", "CreateBucket:err"} -> 1
      [] c \in {"PutObject", "PutObject:err"} -> 2
      [] c \in {"ListOriginAccessControls", "ListOriginAccessControls:err",
                "CreateOriginAccessControl", "CreateOriginAccessControl:err"} -> 3
      [] c \in {"ListDistributions", "ListDistributions:err",
                "CreateDistribution", "CreateDistribution:err"} -> 4
      [] c \in {"GetDistribution", "GetDistribution:err"} ->
            (IF before = "ListHostedZonesByName" THEN 7 ELSE 5)
      [] c \in {"PutBucketPolicy", "PutBucketPolicy:err"} -> 5
      [] c \in {"CreateInvalidation", "CreateInvalidation:err"} -> 6
      [] c \in {"ListHostedZonesByName", "ListHostedZonesByName:err",
                "ChangeResourceRecordSets:UPSERT",
                "ChangeResourceRecordSets:UPSERT:err"} -> 7
      [] c \in {"CreateComment", "CreateComment:err"} -> 8
      [] OTHER -> 0
StepAt(p, i) == StepOfCall(calls[p][i], IF i > 1 THEN calls[p][i-1] ELSE "")

\* The error Deploy is to return for a failure in each step.
NamedError(step) ==
    CASE step = 1 -> "failed to create S3 bucket"
      [] step = 2 -> "failed to sync files to S3"
      [] step = 3 -> "failed to manage OAC"
      [] step = 4 -> "failed to manage CloudFront distribution"
      [] step = 5 -> "failed to set bucket policy"
      [] step = 6 -> "failed to invalidate CloudFront cache"
      [] step = 7 -> "failed to update Route53"
      [] OTHER -> "?"

\* C6: when a call of a Deploy step other than the notification fails (the
\* bucket-existence check aside, whose failure leads to the create), it is the
\* run's last call: the run has returned the error naming that step.
C6_DeployStopsAtFirstFailure ==
    \A p \in Procs :
        IsDeploy(p) =>
            \A i \in 1..Len(calls[p]) :
                (IsErr(calls[p][i]) /\ calls[p][i] \notin {"HeadBucket:err", "CreateComment:err"})
                => /\ i = Len(calls[p])
                   /\ Done(p)
                   /\ result[p] = NamedError(StepAt(p, i))

C6_Witness ==
    \E p \in Procs :
        /\ IsDeploy(p) /\ Done(p)
        /\ Ok(p, "PutBucketPolicy")
        /\ Ok(p, "ChangeResourceRecordSets:UPSERT:err")
        /\ result[p] = "failed to update Route53"

\* C7: the calls of a Deploy run follow the step order bucket, sync, access
\* control, distribution, policy, invalidation, DNS, notification (sync makes
\* no call for an empty source directory); a step's first call comes only
\* after the previous step's last call succeeded; and when the policy is about
\* to be written or the CNAME upserted, the distribution the run holds exists.
C7_DeployStepOrder ==
    \A p \in Procs :
        IsDeploy(p) =>
            /\ \A i \in 1..Len(calls[p]) :
                 LET s == StepAt(p, i)
                     b == IF i = 1 THEN 0 ELSE StepAt(p, i - 1)
                 IN  /\ s >= 1
                     /\ \/ s = b
                        \/ s = b + 1
                        \/ b = 1 /\ s = 3 /\ cfg[p].source = {}
                     /\ (i > 1 /\ s > b) => ~IsErr(calls[p][i-1])
            /\ pc[p] \in {"d_putpolicy", "d_upsert"}
               => /\ dist # NoDist
                  /\ dist.id = loc[p].distributionID
                  /\ Ok(p, "ListDistributions")

C7_Witness ==
    \E p \in Procs :
        /\ IsDeploy(p) /\ Done(p) /\ result[p] = "ok"
        /\ Len(calls[p]) = 15
        /\ Ok(p, "CreateDistribution") /\ Ok(p, "CreateComment")

DnsOrBucketCalls ==
    {"ListHostedZonesByName", "ListResourceRecordSets", "ChangeResourceRecordSets:DELETE",
     "HeadBucket", "ListObjectsV2", "DeleteObjects", "DeleteBucket"}
Count(p, names) == Cardinality({i \in 1..Len(calls[p]) : calls[p][i] \in names})

\* C8: in a Cleanup run every DNS or bucket call comes after the distribution
\* was deleted or the lookup found none; a run whose teardown failed (a wait
\* timeout included) has returned the teardown error with no DNS or bucket
\* call, and no teardown call is made twice.
C8_TeardownFirst ==
    \A p \in Procs :
        IsCleanup(p) =>
            /\ \A i \in 1..Len(calls[p]) :
                 (\E c \in DnsOrBucketCalls : calls[p][i] \in {c, c \o ":err"})
                 => \E j \in 1..(i-1) :
                       \/ calls[p][j] = "DeleteDistribution"
                       \/ calls[p][j] = "ListDistributions" /\ loc[p].distributionID = 0
            /\ (/\ Len(calls[p]) > 0
                /\ \E c \in {"GetDistributionConfig", "UpdateDistribution", "WaitDeployed",
                              "DeleteDistribution"} : calls[p][Len(calls[p])] = c \o ":err")
               => /\ Done(p)
                  /\ result[p] = "failed to delete CloudFront distribution"
                  /\ \A c \in DnsOrBucketCalls : ~Tried(p, c)
            /\ Count(p, {"UpdateDistribution", "UpdateDistribution:err"}) <= 1
            /\ Count(p, {"WaitDeployed", "WaitDeployed:err"}) <= 1
            /\ Count(p, {"DeleteDistribution", "DeleteDistribution:err"}) <= 1

C8_Witness ==
    \E p \in Procs :
        /\ IsCleanup(p) /\ Done(p)
        /\ Ok(p, "UpdateDistribution")
        /\ Ok(p, "WaitDeployed:err")
        /\ result[p] = "failed to delete CloudFront distribution"

DistPhase ==
    IF dist = NoDist THEN "absent"
    ELSE IF dist.enabled THEN "enabled"
    ELSE IF dist.status = "InProgress" THEN "disabling"
    ELSE "disabled"

C9_Step ==
    /\ \/ DistPhase' = DistPhase /\ dist'.id = dist.id
       \/ <<DistPhase, DistPhase'>> \in
            {<<"absent", "enabled">>, <<"enabled", "disabling">>,
             <<"disabling", "disabled">>, <<"disabled", "absent">>}
    /\ \A p \in Procs :
         (/\ Len(calls'[p]) = Len(calls[p]) + 1
          /\ calls'[p][Len(calls'[p])] \in {"UpdateDistribution", "UpdateDistribution:err"})
         => loc[p].enabled

\* C9: across all runs the distribution only moves absent -> enabled ->
\* disabling -> disabled -> absent (never from enabled straight to absent),
\* and an update is submitted only by a run whose fetched config was enabled.
C9_DistributionLifecycle == [][C9_Step]_vars

C9_Witness ==
    \E p \in Procs :
        /\ IsCleanup(p)
        /\ Ok(p, "UpdateDistribution")
        /\ Ok(p, "DeleteDistribution")
        /\ dist = NoDist
        /\ nextId = 2

\* C10: a Deploy run that meets no provider failure (and no failure reading
\* its source directory) and follows a failed
\* Deploy run with the same source creates nothing that already existed,
\* succeeds, and ends with the bucket, the origin access control, the
\* distribution and one CNAME for the hostname.
C10_RetryAfterFailedDeploy ==
    \A p \in Procs :
        (/\ IsDeploy(p)
         /\ prev[p].action = "deploy" /\ ~prev[p].ok
         /\ prev[p].source = cfg[p].source
         /\ ~faulted[p] /\ loc[p].ioErr = "")
        => /\ "bucket" \in had[p] => ~Tried(p, "CreateBucket")
           /\ "oac" \in had[p] => ~Tried(p, "CreateOriginAccessControl")
           /\ "dist" \in had[p] => ~Tried(p, "CreateDistribution")
           /\ Done(p) => /\ result[p] = "ok"
                         /\ bucket
                         /\ oac # NoOac
                         /\ dist # NoDist
                         /\ Cardinality(Cnames) = 1

\* C11: a Cleanup run that meets no injected provider failure and follows a
\* Cleanup run that failed (a wait timeout included) succeeds and leaves the
\* distribution, the CNAME and the bucket absent.
C11_CleanupRetrySucceeds ==
    \A p \in Procs :
        (/\ IsCleanup(p) /\ Done(p)
         /\ prev[p].action = "cleanup" /\ ~prev[p].ok
         /\ ~faulted[p])
        => /\ result[p] = "ok"
           /\ dist = NoDist
           /\ Cnames = {}
           /\ ~bucket

\* C12: when two Deploy runs for the same identity run at once and neither
\* meets an injected provider failure, both succeed and the account ends with
\* the bucket, one OAC-{bucket}, one distribution with the alias and one CNAME.
C12_ConcurrentDeploysBothSucceed ==
    (/\ \A p \in Procs : IsDeploy(p) /\ Done(p) /\ ~faulted[p])
    => /\ \A p \in Procs : result[p] = "ok"
       /\ bucket
       /\ oac # NoOac
       /\ dist # NoDist
       /\ Cardinality(Cnames) = 1

\* A step in which run p submits the provider call name (accepted or not).
Submits(p, name) ==
    /\ Len(calls'[p]) = Len(calls[p]) + 1
    /\ calls'[p][Len(calls'[p])] \in {name, name \o ":err"}

C13_Step ==
    \A p \in Procs :
        Submits(p, "DeleteDistribution")
        => /\ dist # NoDist
           /\ ~dist.enabled
           /\ dist.status = "Deployed"

\* C13: whenever a Cleanup run submits a delete-distribution request, the
\* provider holds the distribution disabled and fully deployed, not in progress.
C13_DeleteOnlyAtSteadyState == [][C13_Step]_vars

LastCall(p) == IF calls[p] = <<>> THEN "" ELSE calls[p][Len(calls[p])]
Fetches == {"GetDistributionConfig:enabled", "GetDistributionConfig:disabled"}

C14_Step ==
    \A p \in Procs :
        /\ Submits(p, "UpdateDistribution")
           => /\ Count(p, Fetches) = 1
              /\ LastCall(p) \in Fetches
              /\ IfMatch(p) = dist.etag
        /\ Submits(p, "DeleteDistribution")
           => /\ LastCall(p) \in Fetches
              /\ IfMatch(p) = dist.etag
              /\ Ok(p, "UpdateDistribution")
                 => /\ Count(p, Fetches) = 2
                    /\ calls[p][Len(calls[p]) - 1] = "WaitDeployed"
                    /\ calls[p][Len(calls[p]) - 2] = "UpdateDistribution"

\* C14: within one teardown (no other run acting) every mutating call carries
\* the version token of a fetch made directly before it, which is the
\* distribution's current token: the disable update follows the run's first
\* fetch, and the delete follows a second fetch made after the update and the
\* wait, so it never carries the token the update replaced.
C14_FreshToken == [][C14_Step]_vars

C14_Witness ==
    \E p \in Procs :
        /\ IsCleanup(p)
        /\ Ok(p, "UpdateDistribution")
        /\ Ok(p, "DeleteDistribution")
        /\ IfMatch(p) = 2
        /\ dist = NoDist

DnsFailures ==
    {"ListHostedZonesByName:err", "ListResourceRecordSets:err",
     "ChangeResourceRecordSets:DELETE:err"}
BucketFailures == {"ListObjectsV2:err", "DeleteObjects:err", "DeleteBucket:err"}

\* C15: in a Cleanup run a failed call of the DNS step (zone lookup, record
\* list, or delete) is logged as a warning and is followed by the bucket step:
\* the next call is the bucket check, and the finished run has returned
\* success unless a call of the bucket step failed.
C15_DnsFailureNotFatal ==
    \A p \in Procs :
        IsCleanup(p) =>
            \A i \in 1..Len(calls[p]) :
                calls[p][i] \in DnsFailures
                => /\ "dns" \in warned[p]
                   /\ IF i = Len(calls[p]) THEN pc[p] = "c_head"
                      ELSE calls[p][i+1] \in {"HeadBucket", "HeadBucket:err"}
                   /\ Done(p) => (result[p] = "ok" <=> \A f \in BucketFailures : ~Ok(p, f))

C15_Witness ==
    \E p \in Procs :
        /\ IsCleanup(p) /\ Done(p) /\ result[p] = "ok"
        /\ Ok(p, "ChangeResourceRecordSets:DELETE:err")
        /\ Ok(p, "DeleteBucket")
        /\ Cnames # {}
        /\ ~bucket

LookupFailures == {"ListDistributions:err", "ListHostedZonesByName:err"}

\* C16: a failed lookup (distribution list, hosted zone) ends a Deploy run
\* with an error; a Cleanup run goes on past it: once the run has finished,
\* the DNS step and the bucket step have both been started.
C16_LookupErrors ==
    \A p \in Procs :
        (\E f \in LookupFailures : Ok(p, f))
        => /\ IsDeploy(p) => (Done(p) /\ result[p] # "ok")
           /\ (IsCleanup(p) /\ Done(p))
              => /\ Tried(p, "ListHostedZonesByName")
                 /\ Tried(p, "HeadBucket")

\* Failed calls that do not fail their step: the bucket checks, the DNS step
\* of Cleanup, and the notification.
NonFatal(p) ==
    {"HeadBucket:err", "CreateComment:err"}
    \cup (IF IsCleanup(p) THEN DnsFailures ELSE {})
FatalFailure(p) ==
    \/ \E i \in 1..Len(calls[p]) : IsErr(calls[p][i]) /\ calls[p][i] \notin NonFatal(p)
    \/ IsDeploy(p) /\ loc[p].ioErr # ""

\* C17: a finished run has returned success exactly when none of its steps
\* other than the notification failed, whether the comment was posted, failed
\* or was skipped; and a comment request is the last call of a run in which no
\* such step failed and whose last fatal step (the DNS upsert of Deploy, the
\* bucket step of Cleanup) is complete.
C17_NotificationNeverFatal ==
    \A p \in Procs :
        /\ Done(p) => (result[p] = "ok" <=> ~FatalFailure(p))
        /\ Tried(p, "CreateComment")
           => /\ LastCall(p) \in {"CreateComment", "CreateComment:err"}
              /\ Count(p, {"CreateComment", "CreateComment:err"}) = 1
              /\ ~FatalFailure(p)
              /\ IsDeploy(p) => Ok(p, "ChangeResourceRecordSets:UPSERT")
              /\ IsCleanup(p) => (Ok(p, "DeleteBucket") \/ Ok(p, "HeadBucket:err"))

C17_Witness ==
    \E p \in Procs :
        /\ IsDeploy(p) /\ Done(p)
        /\ Ok(p, "CreateComment:err")
        /\ "comment" \in warned[p]
        /\ result[p] = "ok"
        /\ DeployComment \notin comments

\* What a successful first Deploy leaves in the account.
EndToEndResources(p) ==
    /\ bucket
    /\ objects = cfg[p].source
    /\ Cardinality(objects) = Len(SeqOf(cfg[p].source))
    /\ dist # NoDist /\ dist.enabled
    /\ dist.id = loc[p].distributionID
    /\ Cnames = {[name |-> Fqdn(fullDomain), type |-> "CNAME",
                  value |-> DistDomainName(dist.id), ttl |-> 300]}
OnePostedComment(p) ==
    /\ Count(p, {"CreateComment"}) = 1
    /\ DeployComment \in comments
    /\ DeployComment.url = "https://" \o fullDomain
FirstDeploySucceeded(p) ==
    IsDeploy(p) /\ Done(p) /\ result[p] = "ok" /\ had[p] = {}

\* C18 as stated: a successful Deploy on an account that held nothing of the
\* environment ends with one object per source file, the distribution, one
\* CNAME for the hostname pointing at the distribution's edge domain, and one
\* posted comment with https://{hostname}.
C18_EndToEndAlwaysComments ==
    \A p \in Procs :
        FirstDeploySucceeded(p) => (EndToEndResources(p) /\ OnePostedComment(p))

\* C18 amended: the resources are as stated; the comment is there when a
\* GitHub client is configured and its request succeeded, and otherwise no
\* deploy comment was posted.
C18_EndToEnd ==
    \A p \in Procs :
        FirstDeploySucceeded(p)
        => /\ EndToEndResources(p)
           /\ IF cfg[p].github /\ ~Ok(p, "CreateComment:err")
              THEN OnePostedComment(p)
              ELSE DeployComment \notin comments

C18_Witness ==
    \E p \in Procs :
        /\ FirstDeploySucceeded(p)
        /\ cfg[p].source = FileSet
        /\ Cardinality(objects) = 2
        /\ OnePostedComment(p)

Named(p) == pc[p] = "named"

\* C19: the bucket name is "pr-{key}-{app}" and the hostname is the bucket
\* name, a dot and the base domain; the bucket name is the same for the same
\* (key, app) whatever the base domain, and differs for different (key, app).
C19_Names ==
    /\ \A p \in Procs :
         Named(p)
         => /\ loc[p].bucketName =
                 "pr-" \o ToString(cfg[p].PRNumber) \o "-" \o cfg[p].AppName
            /\ loc[p].fullDomain = loc[p].bucketName \o "." \o cfg[p].BaseDomain
            /\ (/\ cfg[p].PRNumber = 42 /\ cfg[p].AppName = "site"
                /\ cfg[p].BaseDomain = "example.test")
               => /\ loc[p].bucketName = "pr-42-site"
                  /\ loc[p].fullDomain = "pr-42-site.example.test"
    /\ \A p, q \in Procs :
         (Named(p) /\ Named(q))
         => (loc[p].bucketName = loc[q].bucketName
             <=> /\ cfg[p].PRNumber = cfg[q].PRNumber
                 /\ cfg[p].AppName = cfg[q].AppName)

C19_Witness ==
    /\ \A p \in Procs : Named(p)
    /\ cfg[1].PRNumber = 1 /\ cfg[1].AppName = "2-site"
    /\ cfg[2].PRNumber = 12 /\ cfg[2].AppName = "site"
    /\ loc[1].bucketName = "pr-1-2-site"
    /\ loc[2].bucketName = "pr-12-site"

\* The content type the table of section 4 gives for a lower-case extension.
TypeByTable(ext) ==
    CASE ext = <<".", "h", "t", "m", "l">> -> "text/html"
      [] ext = <<".", "c", "s", "s">> -> "text/css"
      [] ext = <<".", "j", "s">> -> "application/javascript"
      [] ext = <<".", "j", "s", "o", "n">> -> "application/json"
      [] ext = <<".", "p", "n", "g">> -> "image/png"
      [] ext \in {<<".", "j", "p", "g">>, <<".", "j", "p", "e", "g">>} -> "image/jpeg"
      [] ext = <<".", "g", "i", "f">> -> "image/gif"
      [] ext = <<".", "s", "v", "g">> -> "image/svg+xml"
      [] ext = <<".", "i", "c", "o">> -> "image/x-icon"
      [] ext = <<".", "x", "m", "l">> -> "application/xml"
      [] ext = <<".", "p", "d", "f">> -> "application/pdf"
      [] ext = <<".", "t", "x", "t">> -> "text/plain"
      [] OTHER -> "application/octet-stream"

\* C20: the content type of a file is the table entry of its extension taken
\* in lower case, and application/octet-stream when the extension is not in
\* the table or the file has none.
C20_ContentType ==
    \A p \in Procs :
        pc[p] = "typed" => loc[p].contentType = TypeByTable(cfg[p].ext)

C20_Witness ==
    \E p \in Procs :
        /\ pc[p] = "typed"
        /\ cfg[p].filename = <<"a", ".", "U+0130", "C", "O">>
        /\ loc[p].contentType = "image/x-icon"

C21_Step ==
    \A p \in Procs :
        /\ (Submits(p, "ListDistributions") /\ LastCall(p)' = "ListDistributions")
           => loc'[p].distributionID = (IF dist # NoDist THEN dist.id ELSE 0)
        /\ (Submits(p, "ListOriginAccessControls")
            /\ LastCall(p)' = "ListOriginAccessControls")
           => loc'[p].oacID = (IF oac # NoOac THEN oac.id ELSE "")

\* C21: a distribution lookup that is answered returns the id of the
\* distribution carrying the environment alias whenever the account holds one,
\* however many distributions it holds, and nothing only when there is none;
\* likewise the lookup of the origin access control by name.
C21_LookupComplete == [][C21_Step]_vars

\* C22: a finished run in which a provider call failed although the account
\* allowed it, or was refused by the provider, other than the notification and
\* the calls of Cleanup's DNS step, has returned an error; the bucket check of
\* Deploy and of Cleanup included.
C22_NoFailureSwallowed ==
    \A p \in Procs :
        (/\ Done(p)
         /\ faulted[p]
         /\ ~Ok(p, "CreateComment:err")
         /\ IsCleanup(p) => \A f \in DnsFailures : ~Ok(p, f))
        => result[p] # "ok"

\* The content sync of a Deploy run has completed: the run is at, or past, the
\* first call of the step that follows it.
SyncCompleted(p) ==
    /\ IsDeploy(p)
    /\ pc[p] = DeployEntry(DeployAfter("sync")) \/ Tried(p, "ListOriginAccessControls")
Invalidations == {"CreateInvalidation", "CreateInvalidation:err"}

\* C23 as stated: a finished Deploy run whose content sync completed has
\* submitted one invalidation.
C23_InvalidationAfterEverySync ==
    \A p \in Procs :
        (Done(p) /\ SyncCompleted(p)) => Count(p, Invalidations) = 1

\* C23 amended: a finished Deploy run whose content sync completed has
\* submitted exactly one invalidation, after its last upload and for the
\* distribution carrying the alias, when the access-control, distribution and
\* policy steps that follow the sync all succeeded; when one of them failed
\* the run has returned that error with no invalidation submitted.
C23_InvalidationAfterSync ==
    \A p \in Procs :
        (Done(p) /\ SyncCompleted(p))
        => IF Ok(p, "PutBucketPolicy")
           THEN /\ Count(p, Invalidations) = 1
                /\ \A i, j \in 1..Len(calls[p]) :
                     (calls[p][i] = "PutObject" /\ calls[p][j] \in Invalidations) => i < j
                /\ Ok(p, "CreateInvalidation")
                   => (dist # NoDist /\ loc[p].distributionID = dist.id)
           ELSE /\ Count(p, Invalidations) = 0
                /\ result[p] \in {DeployError("oac"), DeployError("distribution"),
                                  DeployError("policy")}

C23_Witness ==
    \E p \in Procs :
        /\ Done(p) /\ SyncCompleted(p)
        /\ cfg[p].source = FileSet
        /\ Count(p, {"PutObject"}) = 2
        /\ Ok(p, "CreateInvalidation")
        /\ "dist" \in had[p]

\* C24: after a successful Deploy, in any sequence of Deploy and Cleanup runs,
\* the bucket policy is the statement that run wrote, and its source-identity
\* condition is the resource identifier of the distribution that carries the
\* environment alias; a policy left by an earlier run is replaced.
C24_PolicyScopedToDistribution ==
    \A p \in Procs :
        (IsDeploy(p) /\ Done(p) /\ result[p] = "ok")
        => /\ bucket
           /\ dist # NoDist
           /\ Ok(p, "PutBucketPolicy")
           /\ policy = loc[p].arn
           /\ policy = DistArn(dist.id)

C24_Witness ==
    \E p \in Procs :
        /\ IsDeploy(p) /\ Done(p) /\ result[p] = "ok"
        /\ "bucket" \in had[p]
        /\ Ok(p, "CreateDistribution")
        /\ dist.id = 2
        /\ policy = DistArn(2)

Puts == {"PutObject", "PutObject:err"}

\* C25: the content sync of a Deploy run uploads the regular files of the
\* source tree in walk order, each once, under its source-relative path, and
\* no directory; when an upload fails the run has returned the sync error at
\* that call, with the failed path next in line, no further upload, no second
\* attempt, and the files uploaded before it in the bucket.
C25_SyncStopsAtFirstFailure ==
    \A p \in Procs :
        IsDeploy(p) =>
            LET src == SeqOf(cfg[p].source)
                n == Count(p, {"PutObject"})
            IN  /\ \A i \in 1..Len(Walk) : Walk[i].isDir => Walk[i].path \notin objects
                /\ Count(p, Puts) <= Len(src)
                /\ n <= Len(src)
                /\ loc[p].todo = SubSeq(src, n + 1, Len(src))
                /\ \A i \in 1..n : src[i] \in objects
                /\ SyncCompleted(p) => (n = Len(src) /\ cfg[p].source \subseteq objects)
                /\ Ok(p, "PutObject:err")
                   => /\ LastCall(p) = "PutObject:err"
                      /\ Count(p, {"PutObject:err"}) = 1
                      /\ Done(p)
                      /\ result[p] = "failed to sync files to S3"
                      /\ Head(loc[p].todo) = src[n + 1]
                /\ loc[p].ioErr # ""
                   => /\ Done(p)
                      /\ result[p] = "failed to sync files to S3"
                      /\ ~Ok(p, "PutObject:err")

C25_Witness ==
    \E p \in Procs :
        /\ IsDeploy(p) /\ Done(p)
        /\ cfg[p].source = {"assets/app.js", "index.html"}
        /\ "bucket" \notin had[p]
        /\ calls[p] = <<"HeadBucket:err", "CreateBucket", "PutObject", "PutObject:err">>
        /\ objects = {"assets/app.js"}

FullyDeployed ==
    /\ bucket
    /\ dist # NoDist /\ dist.enabled
    /\ policy = DistArn(dist.id)
    /\ Cnames = {[name |-> Fqdn(fullDomain), type |-> "CNAME",
                  value |-> DistDomainName(dist.id), ttl |-> 300]}
    /\ \E p \in Procs : IsDeploy(p) /\ cfg[p].source \subseteq objects
FullyTornDown == ~bucket /\ dist = NoDist /\ Cnames = {}

\* C26: when one Deploy run and one Cleanup run for the same identity have
\* interleaved and both returned success, the account is either fully
\* deployed or fully torn down.
C26_DeployCleanupNoMixture ==
    (/\ \E p \in Procs : IsDeploy(p)
     /\ \E p \in Procs : IsCleanup(p)
     /\ \A p \in Procs : Done(p) /\ result[p] = "ok")
    => (FullyDeployed \/ FullyTornDown)

\* C27: after a successful Deploy, in any sequence of runs, the distribution
\* carrying the environment alias is enabled.
C27_DeployLeavesDistributionEnabled ==
    \A p \in Procs :
        (IsDeploy(p) /\ Done(p) /\ result[p] = "ok")
        => (dist # NoDist /\ dist.enabled)

C28_Step ==
    /\ \A p \in Procs :
         Submits(p, "ChangeResourceRecordSets:DELETE") => loc[p].recordSet.type = "CNAME"
    /\ \A r \in zone \ zone' : r.type = "CNAME"

\* C28: the DNS delete a Cleanup run submits names a record set of type CNAME,
\* and no record set of another type ever leaves the hosted zone.
C28_DeleteOnlyCname == [][C28_Step]_vars

\* C29: when a Cleanup run has posted the teardown-confirmation comment, the
\* distribution carrying the alias, the CNAME for the hostname and the bucket
\* are all absent.
C29_CleanupCommentMeansRemoved ==
    \A p \in Procs :
        (IsCleanup(p) /\ Ok(p, "CreateComment"))
        => /\ dist = NoDist
           /\ Cnames = {}
           /\ ~bucket

\* C30: after a successful Deploy, a re-deploy from a source directory that
\* lost files included, the object keys in the bucket are exactly the
\* source-relative paths of the regular files of the source directory.
C30_BucketMirrorsSource ==
    \A p \in Procs :
        (IsDeploy(p) /\ Done(p) /\ result[p] = "ok")
        => objects = cfg[p].source

=============================================================================
